---- MODULE Spec2Model ----
(***************************************************************************)
(* Screen-capture subsystem of one_dragon: PcScreenshotController with its *)
(* strategies BitBltScreencapper (GdiScreencapperBase),                    *)
(* PrintWindowScreencapper and PilScreencapper, plus the unregistered      *)
(* MssScreencapper.  Native handles (window DC, memory DC, DIB section,    *)
(* mss session) are numbered objects of an abstract OS; every OS primitive *)
(* may fail.  Each thread executes one controller call at a time, one      *)
(* source-level step per action.                                           *)
(***************************************************************************)
EXTENDS Integers, Sequences, FiniteSets, TLC

\* ------------------------------------------------------------------ bounds
\* Window rectangles have width 0..MaxDim (0 is the malformed one), height 1.
MaxDim == 2
\* the number of device contexts of one kind the system can have alive
MaxHandles == 3
\* the number of consecutive captures an observing caller notes down
MaxCalls == 3
\* the number of initialisations that can wait in an executor's queue
MaxQueue == 1
\* the number of failed validity probes a waiting initialisation counts
MaxPolls == 1

\* ------------------------------------------------------- program constants
None == "None"
\* a null handle; Python's None and 0 are both false in "if not hwndDC"
NoHandle == 0
\* the constructor arguments standard_width and standard_height, the size a
\* scaled image is resized to; one small size stands for the configured one
standard_width == 3
standard_height == 3
\* the colour channels of a returned image: cv2.COLOR_BGRA2RGB, and the RGB
\* screenshot of pyautogui
Channels == 3

StrategyOrder == <<"bitblt", "print_window", "pil">>
Strategies == {"bitblt", "print_window", "pil"}
GDI == {"bitblt", "print_window"}
Methods == Strategies \cup {"auto"}
\* the threads of the application that call the controller and its strategies
Callers == {"main", "diag"}
\* the worker threads of the init executors: ThreadPoolExecutor(max_workers=1)
\* has one worker, and a controller that re-creates its executor gets another
Workers == {"w1", "w2"}
Threads == Callers \cup Workers

\* win_rect of the window descriptor: None, or <<width, height>>
NoRect == <<0, 0>>
Rects == {<<w, 1>> : w \in 0..MaxDim} \cup {<<1, 0>>}

NoImage == [by |-> None, w |-> 0, h |-> 0, ch |-> 0, src |-> 0]
\* an exception leaving strategy.capture() instead of a return value
Raised == [by |-> "exception", w |-> 0, h |-> 0, ch |-> 0, src |-> 0]
NoFields == [hwndDC |-> NoHandle, mfcDC |-> NoHandle, saveBitMap |-> NoHandle,
             buffer |-> NoHandle, width |-> 0, height |-> 0,
             hwnd_for_dc |-> NoHandle, selected_prev |-> None]
NoUse == [hwndDC |-> NoHandle, mfcDC |-> NoHandle, saveBitMap |-> NoHandle,
          buffer |-> NoHandle]

VARIABLES
    active_strategy_name,  \* PcScreenshotController.active_strategy_name
    strategies,            \* cached fields of the two GDI strategy instances
    lock,                  \* owner of each GDI strategy's RLock (None = free)
    mss_instance,          \* MssScreencapper.mss_instance (0 = None)
    os,                    \* live native objects: winDC, memDC, bmp, sess
    pilOk,                 \* whether pyautogui's screenshot currently works
    th,                    \* per thread: the call in progress and its locals
    pool,                  \* _screenshot_init_executor and the queues of the executors
    conv                   \* a buffer_to_ndarray call: its arguments and its result

vars == <<active_strategy_name, strategies, lock, mss_instance, os, pilOk, th, pool, conv>>

\* ----------------------------------------------------------- pure helpers

\* a table whose entries are the rotations of the default order, so that no
\* single relative order fits all of them
get_method_priority_list_Rotated(method) ==
    CASE method = "bitblt" -> <<"bitblt", "print_window", "pil">>
      [] method = "print_window" -> <<"print_window", "pil", "bitblt">>
      [] method = "pil" -> <<"pil", "bitblt", "print_window">>
      [] OTHER -> <<"bitblt", "print_window", "pil">>

\* PcScreenshotController._get_method_priority_list
get_method_priority_list(method) ==
    CASE method = "bitblt" -> <<"bitblt", "print_window", "pil">>
      [] method = "print_window" -> <<"print_window", "bitblt", "pil">>
      [] method = "pil" -> <<"pil", "bitblt", "print_window">>
      [] OTHER -> <<"bitblt", "print_window", "pil">>

\* a controller that lets an uninitialised capture through
RejectsUninitialized_Never(active, independent) == FALSE

\* get_screenshot, lines 47-49: the call is refused
RejectsUninitialized(active, independent) ==
    active = None /\ ~independent

\* a get_screenshot that always starts from the default order
CaptureCandidates_DefaultOrder(active, independent) ==
    get_method_priority_list("auto")

\* get_screenshot, lines 55-60: the candidate list of a capture
CaptureCandidates(active, independent) ==
    IF independent THEN get_method_priority_list("auto")
    ELSE get_method_priority_list(active)

\* a controller that never promotes the winner
Promoted_Never(active, method_name, independent) == active

\* a controller that promotes the winner of an independent capture too
Promoted_Always(active, method_name, independent) == method_name

\* a controller that falls back to the head of the default order whenever
\* another strategy than the active one has won
Promoted_Default(active, method_name, independent) ==
    IF ~independent /\ active # method_name
    THEN get_method_priority_list("auto")[1] ELSE active

\* get_screenshot, lines 72-73: the active strategy after method_name won
Promoted(active, method_name, independent) ==
    IF ~independent /\ active # method_name THEN method_name ELSE active

\* _create_bitmap_resources is a method of BitmapResourceMixin.  GdiScreencapperBase
\* inherits it; PrintWindowScreencapper derives from ScreencapperBase alone, so the
\* attribute lookup raises there before any OS call is made.
HasBitmapMixin(s) == s = "bitblt"

\* a BitBltScreencapper that passes retry=True
Retries_Always(s) == TRUE

\* BitBltScreencapper.capture passes retry=False; PrintWindowScreencapper.capture
\* always re-initialises and tries a second time.
Retries(s) == s = "print_window"

\* Only PrintWindowScreencapper._capture_window_to_bitmap records the previously
\* selected object in the instance, under the instance lock.
RecordsSelectedPrev(s) == s = "print_window"

\* a lock that never makes anyone wait
CanAcquire_Always(s, t) == TRUE

\* a plain Lock: the owner waits for itself
CanAcquire_NotReentrant(s, t) == lock[s] = None

\* threading.RLock: the owner may acquire again
CanAcquire(s, t) == lock[s] \in {None, t}

\* A new handle is any value that is neither live nor still referenced.  The
\* code only compares handles for equality, so one representative is taken:
\* the smallest free value of the range of the acquiring site (the cached
\* resources of a strategy, or the locals of a thread's independent capture).
Site(s, t, independent) ==
    IF independent THEN (IF t = "main" THEN 20 ELSE 30)
    ELSE (IF s = "bitblt" THEN 0 ELSE 10)

Fresh(used, site) ==
    CHOOSE n \in (site + 1)..(site + Cardinality(used) + 1) :
        n \notin used /\ \A m \in (site + 1)..(n - 1) : m \in used

UsedWinDC == os.winDC \cup {strategies[s].hwndDC : s \in GDI}
                      \cup {th[t].use.hwndDC : t \in Threads}
UsedMemDC == os.memDC \cup {strategies[s].mfcDC : s \in GDI}
                      \cup {th[t].use.mfcDC : t \in Threads}
UsedBmp == os.bmp \cup {strategies[s].saveBitMap : s \in GDI}
                  \cup {th[t].use.saveBitMap : t \in Threads}
                  \cup {th[t].res.src : t \in Threads} \cup {th[t].ret.src : t \in Threads}

Idle == [op |-> "idle", pc |-> "idle", indep |-> FALSE, method |-> None,
         order |-> <<>>, idx |-> 0, rect |-> NoRect, cur |-> None, hwnd |-> 0,
         cont |-> None, retried |-> FALSE, ok |-> FALSE, res |-> NoImage,
         ret |-> NoImage, retName |-> None, use |-> NoUse, prev |-> None,
         trace |-> <<>>, nrel |-> 0, bad |-> FALSE, act0 |-> None,
         after |-> None, why |-> None, nfail |-> 0, logging |-> FALSE, log |-> <<>>,
         valid |-> FALSE, polls |-> 0, caught |-> FALSE, scale |-> FALSE,
         overlap |-> FALSE]

\* ---------------------------------------------- GdiScreencapperBase.cleanup
\* (PrintWindowScreencapper.cleanup is the same code.)  Everything happens
\* inside "with self._lock".
HoldsAnything(f) == f.hwndDC # NoHandle \/ f.mfcDC # NoHandle \/ f.saveBitMap # NoHandle

\* the handles cleanup passes to DeleteObject, DeleteDC and ReleaseDC
CleanupBmp(f) == IF f.saveBitMap # NoHandle THEN {f.saveBitMap} ELSE {}
CleanupMemDC(f) == IF f.mfcDC # NoHandle THEN {f.mfcDC} ELSE {}
CleanupWinDC(f) ==
    IF f.hwndDC # NoHandle /\ f.hwnd_for_dc # NoHandle THEN {f.hwndDC} ELSE {}

CleanupCalls(f) ==
    Cardinality(CleanupBmp(f)) + Cardinality(CleanupMemDC(f)) + Cardinality(CleanupWinDC(f))

\* a handle that is no longer live is handed to a release primitive
CleanupStale(f) ==
    \/ CleanupBmp(f) \ os.bmp # {}
    \/ CleanupMemDC(f) \ os.memDC # {}
    \/ CleanupWinDC(f) \ os.winDC # {}

\* a cleanup that forgets to reset the window DC
CleanedFields_KeepsWindowDC(f) ==
    [NoFields EXCEPT !.hwndDC = f.hwndDC, !.hwnd_for_dc = f.hwnd_for_dc,
                     !.selected_prev = f.selected_prev]

CleanedFields(f) ==
    [NoFields EXCEPT !.selected_prev =
        IF f.saveBitMap # NoHandle /\ f.mfcDC # NoHandle THEN None ELSE f.selected_prev]

\* SelectObject(mfcDC, prev): whatever bitmap was selected into mfcDC is not
\* any more
Deselected(sel, mfcDC) == {p \in sel : p[1] # mfcDC}

\* "if self.mfcDC and self._selected_prev is not None: SelectObject(...)", done
\* before a cached bitmap is deleted
RestoredBeforeDelete(sel, f) ==
    IF f.saveBitMap # NoHandle /\ f.mfcDC # NoHandle /\ f.selected_prev # None
    THEN Deselected(sel, f.mfcDC) ELSE sel

StrategyCleanup(s) ==
    LET f == strategies[s] IN
    /\ strategies' = [strategies EXCEPT ![s] = CleanedFields(f)]
    /\ os' = [os EXCEPT !.bmp = @ \ CleanupBmp(f),
                        !.memDC = @ \ CleanupMemDC(f),
                        !.winDC = @ \ CleanupWinDC(f),
                        !.sel = RestoredBeforeDelete(@, f)]

Cleaned(fr, s) ==
    [fr EXCEPT !.nrel = @ + CleanupCalls(strategies[s]),
               !.bad = @ \/ CleanupStale(strategies[s])]

\* the state cleanup_resources() leaves: no active strategy, every cached
\* field of every strategy reset
CleanedUp ==
    /\ active_strategy_name = None
    /\ \A s \in GDI : strategies[s] = NoFields

Call(call, s, independent, ok) ==
    [call |-> call, s |-> s, indep |-> independent, ok |-> ok]

\* ------------------------------- PcScreenshotController.cleanup_resources
StartCleanup(t) ==
    /\ th[t].pc = "idle"
    /\ th' = [th EXCEPT ![t] = [Idle EXCEPT !.op = "cleanup", !.pc = "clean", !.idx = 1,
                                            !.act0 = active_strategy_name,
                                            !.after = th[t].after]]
    /\ UNCHANGED <<active_strategy_name, strategies, lock, mss_instance, os, pilOk, pool, conv>>

\* one iteration of "for strategy in self.strategies.values(): strategy.cleanup()"
CleanupStrategy(t) ==
    /\ th[t].pc = "clean" /\ th[t].idx <= Len(StrategyOrder)
    /\ LET s == StrategyOrder[th[t].idx]
           fr == [th[t] EXCEPT !.idx = @ + 1,
                               !.trace = Append(@, Call("cleanup", s, FALSE, TRUE))]
       IN IF s \in GDI
          THEN /\ CanAcquire(s, t)
               /\ StrategyCleanup(s)
               /\ th' = [th EXCEPT ![t] = Cleaned(fr, s)]
          ELSE /\ th' = [th EXCEPT ![t] = fr]
               /\ UNCHANGED <<strategies, os>>
    /\ UNCHANGED <<active_strategy_name, lock, mss_instance, pilOk, pool, conv>>

\* a get_screenshot of another thread that has passed the check of lines 47-49
\* and has not returned
CaptureInFlight(u) ==
    th[u].op = "capture" /\ ~th[u].indep /\ th[u].pc \notin {"idle", "done"}

\* "self.active_strategy_name = None", then back in the caller
CleanupDone(t) ==
    /\ th[t].pc = "clean" /\ th[t].idx > Len(StrategyOrder)
    /\ active_strategy_name' = None
    /\ th' = [u \in Threads |->
                IF u # t
                THEN IF th[t].op = "cleanup" /\ CaptureInFlight(u)
                     THEN [th[u] EXCEPT !.overlap = TRUE]
                     ELSE th[u]
                ELSE IF th[t].op = "init"
                THEN [th[t] EXCEPT !.pc = "init_next", !.idx = 1,
                                   !.order = get_method_priority_list(th[t].method)]
                ELSE [th[t] EXCEPT !.pc = "done"]]
    /\ UNCHANGED <<strategies, lock, mss_instance, os, pilOk, pool, conv>>

\* no buffer_to_ndarray call is being looked at
NoConv == [pc |-> "none", size |-> 0, width |-> 0, height |-> 0,
           err |-> FALSE, shape |-> <<>>, scale |-> FALSE, ret |-> <<>>]

InitController ==
    /\ active_strategy_name = None
    /\ strategies = [s \in GDI |-> NoFields]
    /\ lock = [s \in GDI |-> None]
    /\ mss_instance = NoHandle
    /\ os = [winDC |-> {}, memDC |-> {}, bmp |-> {}, sess |-> {}, sel |-> {}]
    /\ pilOk \in BOOLEAN
    /\ th = [t \in Threads |-> Idle]
    /\ pool = [executor |-> "w1", queue |-> [w \in Workers |-> <<>>]]

Init ==
    /\ InitController
    /\ conv = NoConv

\* -------------------------------------------- GdiScreencapperBase.init
\* (PrintWindowScreencapper.init is the same code.)  init() itself takes no
\* lock; only the cleanup() calls inside it do.

\* what the caller of strategy.init() does with the returned value
InitReturned(t, fr, ok) ==
    CASE fr.cont = "ctl" ->
            \* init_screenshot, line 116
            /\ th' = [th EXCEPT ![t] = [fr EXCEPT !.ok = ok, !.pc = "init_ret", !.use = NoUse,
                                   !.trace = Append(@, Call("init", fr.cur, FALSE, ok))]]
            /\ UNCHANGED lock
      [] fr.cont = "first" /\ ok ->
            \* capture_common, lines 256-259
            /\ th' = [th EXCEPT ![t] = [fr EXCEPT !.pc = "ensure", !.use = NoUse]]
            /\ UNCHANGED lock
      [] fr.cont = "retry" /\ ok ->
            \* capture_common, lines 263-265
            /\ th' = [th EXCEPT ![t] = [fr EXCEPT !.pc = "ensure", !.retried = TRUE,
                                                  !.use = NoUse]]
            /\ UNCHANGED lock
      [] fr.cont = "direct" ->
            \* init() was called on the strategy itself
            /\ th' = [th EXCEPT ![t] = [fr EXCEPT !.ok = ok, !.pc = "done", !.use = NoUse]]
            /\ UNCHANGED lock
      [] OTHER ->
            \* "if not self.init(): return None" leaves the with-block
            /\ th' = [th EXCEPT ![t] = [fr EXCEPT !.pc = "cap_ret", !.res = NoImage,
                                                  !.use = NoUse, !.why = "init"]]
            /\ lock' = [lock EXCEPT ![fr.cur] = None]

\* line 174: self.cleanup()
SInitClean(t) ==
    /\ th[t].pc = "si_clean"
    /\ CanAcquire(th[t].cur, t)
    /\ StrategyCleanup(th[t].cur)
    /\ th' = [th EXCEPT ![t] = [Cleaned(th[t], th[t].cur) EXCEPT !.pc = "si_acquire"]]
    /\ UNCHANGED <<active_strategy_name, lock, mss_instance, pilOk, pool, conv>>

\* the number of native-resource creations that have failed inside the current
\* strategy capture(); a missing window handle is not a creation
CreationFailures(n, op, hwnd) == IF op = "capture" /\ hwnd # 0 THEN n + 1 ELSE n

\* GetDC and CreateCompatibleDC return a handle or null; the system has no
\* handle left to give once MaxHandles device contexts of a kind are alive
AcquireOutcomes ==
    IF Cardinality(os.winDC) >= MaxHandles THEN {"GetDC"}
    ELSE IF Cardinality(os.memDC) >= MaxHandles THEN {"CreateCompatibleDC"}
    ELSE {"ok", "GetDC", "CreateCompatibleDC"}

\* an init() that raises without releasing the window DC it has just got
ReleasedOnFailure_Nothing(dc) == {}

\* line 184: ReleaseDC(hwnd, hwndDC) before raising, when CreateCompatibleDC
\* has returned null
ReleasedOnFailure(dc) == {dc}

\* lines 176-185: get_hwnd, GetDC, CreateCompatibleDC into locals; when
\* CreateCompatibleDC fails the window DC is released again before raising
SInitAcquire(t) ==
    /\ th[t].pc = "si_acquire"
    /\ \E hwnd \in {0, 1}, outcome \in AcquireOutcomes :
         LET dc == Fresh(UsedWinDC, Site(th[t].cur, t, FALSE))
             mdc == Fresh(UsedMemDC, Site(th[t].cur, t, FALSE))
         IN IF hwnd # 0 /\ outcome = "ok"
            THEN /\ os' = [os EXCEPT !.winDC = @ \cup {dc}, !.memDC = @ \cup {mdc}]
                 /\ th' = [th EXCEPT ![t] = [@ EXCEPT !.pc = "si_store", !.hwnd = hwnd,
                                !.use = [NoUse EXCEPT !.hwndDC = dc, !.mfcDC = mdc]]]
            ELSE /\ os' = IF hwnd # 0 /\ outcome = "CreateCompatibleDC"
                          THEN [os EXCEPT !.winDC = (@ \cup {dc}) \ ReleasedOnFailure(dc)]
                          ELSE os
                 /\ th' = [th EXCEPT ![t] = [@ EXCEPT !.pc = "si_fail", !.hwnd = hwnd,
                                                      !.nfail = CreationFailures(@, th[t].op, hwnd)]]
    /\ UNCHANGED <<active_strategy_name, strategies, lock, mss_instance, pilOk, pool, conv>>

\* lines 186-189: the handles are stored in the instance; return True
SInitStore(t) ==
    /\ th[t].pc = "si_store"
    /\ strategies' = [strategies EXCEPT ![th[t].cur] =
                        [@ EXCEPT !.hwndDC = th[t].use.hwndDC,
                                  !.mfcDC = th[t].use.mfcDC,
                                  !.hwnd_for_dc = th[t].hwnd]]
    /\ InitReturned(t, th[t], TRUE)
    /\ UNCHANGED <<active_strategy_name, mss_instance, os, pilOk, pool, conv>>

\* lines 190-193: except: self.cleanup(); return False
SInitFail(t) ==
    /\ th[t].pc = "si_fail"
    /\ CanAcquire(th[t].cur, t)
    /\ StrategyCleanup(th[t].cur)
    /\ InitReturned(t, Cleaned(th[t], th[t].cur), FALSE)
    /\ UNCHANGED <<active_strategy_name, mss_instance, pilOk, pool, conv>>

\* ---------------------------------- PcScreenshotController.init_screenshot
InitFrame(method) ==
    [Idle EXCEPT !.op = "init", !.pc = "clean", !.idx = 1, !.method = method,
                 !.act0 = active_strategy_name]

StartInit(t, method) ==
    /\ th[t].pc = "idle"
    /\ th' = [th EXCEPT ![t] = InitFrame(method)]
    /\ UNCHANGED <<active_strategy_name, strategies, lock, mss_instance, os, pilOk, pool, conv>>

\* a PIL strategy whose init() reports a failure
PilInit_Fails == FALSE

\* PilScreencapper.init, lines 18-22: "return True"
PilInit == TRUE

\* lines 114-116 and 124-126: the next candidate, or none is left
InitNext(t) ==
    /\ th[t].pc = "init_next"
    /\ IF th[t].idx > Len(th[t].order)
       THEN /\ active_strategy_name' = None
            /\ th' = [th EXCEPT ![t] = [@ EXCEPT !.pc = "done", !.retName = None]]
       ELSE LET s == th[t].order[th[t].idx] IN
            /\ active_strategy_name' = active_strategy_name
            /\ th' = [th EXCEPT ![t] =
                        IF s \in GDI
                        THEN [@ EXCEPT !.cur = s, !.pc = "si_clean", !.cont = "ctl"]
                        ELSE [@ EXCEPT !.cur = s, !.pc = "init_ret", !.ok = PilInit,
                                       !.trace = Append(@, Call("init", s, FALSE, PilInit))]]
    /\ UNCHANGED <<strategies, lock, mss_instance, os, pilOk, pool, conv>>

\* an init_screenshot that goes on to the next candidate after a success
InitRet_KeepsGoing(t) ==
    /\ th[t].pc = "init_ret"
    /\ active_strategy_name' = IF th[t].ok THEN th[t].cur ELSE active_strategy_name
    /\ th' = [th EXCEPT ![t] = [@ EXCEPT !.pc = "init_next", !.idx = @ + 1,
                                         !.retName = IF th[t].ok THEN th[t].cur ELSE @]]
    /\ UNCHANGED <<strategies, lock, mss_instance, os, pilOk, pool, conv>>

\* an init_screenshot that activates the preferred method, not the one that
\* initialised
InitRet_ActivatesPreferred(t) ==
    /\ th[t].pc = "init_ret"
    /\ IF th[t].ok
       THEN /\ active_strategy_name' = th[t].order[1]
            /\ th' = [th EXCEPT ![t] = [@ EXCEPT !.pc = "done", !.retName = th[t].cur]]
       ELSE /\ active_strategy_name' = active_strategy_name
            /\ th' = [th EXCEPT ![t] = [@ EXCEPT !.pc = "init_next", !.idx = @ + 1]]
    /\ UNCHANGED <<strategies, lock, mss_instance, os, pilOk, pool, conv>>

\* lines 116-122: a successful candidate becomes the active strategy
InitRet(t) ==
    /\ th[t].pc = "init_ret"
    /\ IF th[t].ok
       THEN /\ active_strategy_name' = th[t].cur
            /\ th' = [th EXCEPT ![t] = [@ EXCEPT !.pc = "done", !.retName = th[t].cur]]
       ELSE /\ active_strategy_name' = active_strategy_name
            /\ th' = [th EXCEPT ![t] = [@ EXCEPT !.pc = "init_next", !.idx = @ + 1]]
    /\ UNCHANGED <<strategies, lock, mss_instance, os, pilOk, pool, conv>>

\* a capture that never rescales
Rescales_Never(is_win_scale) == FALSE

\* _capture_bitmap_to_image, lines 144-145: the rescaling condition
Rescales(is_win_scale) ==
    is_win_scale /\ standard_width # 0 /\ standard_height # 0

\* ------------------------------------ PcScreenshotController.get_screenshot
Image(s, rect, scaled, src) ==
    IF scaled
    THEN [by |-> s, w |-> standard_width, h |-> standard_height, ch |-> Channels,
          src |-> src]
    ELSE [by |-> s, w |-> rect[1], h |-> rect[2], ch |-> Channels, src |-> src]

\* a strategy capture that takes the cached path whatever the flag says
UsesCachedResources_Always(independent) == TRUE

\* capture_common, lines 253-255: which path a strategy capture takes
UsesCachedResources(independent) == ~independent

\* lines 47-60: the initialised check, win_rect, the candidate list
StartCapture(t, independent, rect) ==
    /\ th[t].pc = "idle"
    /\   th' = [th EXCEPT ![t] =
                 LET fr == [Idle EXCEPT !.op = "capture", !.indep = independent,
                                        !.act0 = active_strategy_name]
                 IN IF RejectsUninitialized(active_strategy_name, independent)
                    THEN [fr EXCEPT !.pc = "done"]
                    ELSE IF rect = NoRect
                    THEN [fr EXCEPT !.pc = "done"]
                    ELSE [fr EXCEPT !.pc = "cap_next", !.idx = 1, !.rect = rect,
                             !.order = CaptureCandidates(active_strategy_name, independent)]]
    /\ UNCHANGED <<active_strategy_name, strategies, lock, mss_instance, os, pilOk, pool, conv>>

\* PilScreencapper.capture: pyautogui's region screenshot, then the rescale.
\* A region of width 0 is outside pyautogui's contract: either outcome.
\* PilScreencapper.capture, lines 28-39: the screenshot call is inside try, the
\* rescaling is not; cv2.resize raises on the empty screenshot of an empty region
PilCapture(rect, is_win_scale) ==
    IF rect[1] > 0 /\ rect[2] > 0
    THEN IF pilOk THEN {Image("pil", rect, is_win_scale, 0)} ELSE {NoImage}
    ELSE IF is_win_scale THEN {NoImage, Raised}
         ELSE {NoImage, Image("pil", rect, FALSE, 0)}

\* a capture() that only checks the window handle
RejectsInput_HandleOnly(hwnd, rect) == hwnd = 0

\* capture_common, lines 246-254 (PrintWindowScreencapper.capture, 73-81):
\* return None before anything else is done
RejectsInput(hwnd, rect) == hwnd = 0 \/ rect[1] <= 0 \/ rect[2] <= 0

\* lines 62-68 and 78-79: the next candidate's capture() is called, or none is
\* left; for a GDI strategy lines 246-254 of capture_common follow
CapNext(t) ==
    /\ th[t].pc = "cap_next"
    /\ IF th[t].idx > Len(th[t].order)
       THEN th' = [th EXCEPT ![t] = [@ EXCEPT !.pc = "done", !.ret = NoImage]]
       ELSE LET s == th[t].order[th[t].idx] IN
            IF s \in GDI
            THEN \E hwnd \in {0, 1} :
                   th' = [th EXCEPT ![t] =
                     IF RejectsInput(hwnd, th[t].rect)
                     THEN [@ EXCEPT !.cur = s, !.hwnd = hwnd, !.pc = "cap_ret",
                                    !.res = NoImage]
                     ELSE [@ EXCEPT !.cur = s, !.hwnd = hwnd, !.retried = FALSE,
                                    !.pc = IF UsesCachedResources(th[t].indep)
                                           THEN "cap_lock" ELSE "ind_acquire"]]
            ELSE \E is_win_scale \in BOOLEAN :
                 \E img \in PilCapture(th[t].rect, is_win_scale) :
                   th' = [th EXCEPT ![t] = [@ EXCEPT !.cur = s, !.pc = "cap_ret",
                                                     !.res = img,
                                                     !.scale = is_win_scale]]
    /\ UNCHANGED <<active_strategy_name, strategies, lock, mss_instance, os, pilOk, pool, conv>>

\* a get_screenshot that goes on to the next candidate after an image
CapRet_KeepsGoing(t) ==
    /\ th[t].pc = "cap_ret" /\ th[t].op = "capture"
    /\ LET fr == [th[t] EXCEPT !.trace = Append(@, Call("capture", th[t].cur, th[t].indep,
                                                        th[t].res # NoImage)),
                               !.hwnd = 0, !.retried = FALSE, !.cont = None,
                               !.why = None, !.nrel = 0, !.nfail = 0]
       IN /\ th' = [th EXCEPT ![t] = [fr EXCEPT !.pc = "cap_next", !.idx = @ + 1,
                                                !.ret = th[t].res, !.res = NoImage]]
          /\ active_strategy_name' =
               IF th[t].res = NoImage THEN active_strategy_name
               ELSE Promoted(active_strategy_name, th[t].cur, th[t].indep)
    /\ UNCHANGED <<strategies, lock, mss_instance, os, pilOk, pool, conv>>

\* lines 69-77: a null result moves on, an image is returned and its strategy
\* promoted
\* get_screenshot without the except clause of lines 75-76
Caught_Never(res) == FALSE

\* get_screenshot, lines 75-76: except Exception: continue
Caught(res) == res = Raised

CapRet(t) ==
    /\ th[t].pc = "cap_ret" /\ th[t].op = "capture"
    /\ LET fr == [th[t] EXCEPT !.trace = Append(@, Call("capture", th[t].cur, th[t].indep,
                                                        th[t].res \notin {NoImage, Raised})),
                               !.hwnd = 0, !.retried = FALSE, !.cont = None,
                               !.why = None, !.nrel = 0, !.nfail = 0,
                               !.caught = @ \/ Caught(th[t].res)]
       IN IF th[t].res = NoImage \/ Caught(th[t].res)
          THEN /\ th' = [th EXCEPT ![t] = [fr EXCEPT !.pc = "cap_next", !.idx = @ + 1,
                                                     !.scale = FALSE]]
               /\ active_strategy_name' = active_strategy_name
          ELSE /\ th' = [th EXCEPT ![t] = [fr EXCEPT !.pc = "done", !.ret = th[t].res,
                                                     !.res = NoImage]]
               /\ active_strategy_name' =
                    Promoted(active_strategy_name, th[t].cur, th[t].indep)
    /\ UNCHANGED <<strategies, lock, mss_instance, os, pilOk, pool, conv>>

\* ------------------------------- GdiScreencapperBase.capture_common, cached
\* lines 255-258: "with self._lock", then init() when a DC is missing
CapLock(t) ==
    /\ th[t].pc = "cap_lock"
    /\ CanAcquire(th[t].cur, t)
    /\ lock' = [lock EXCEPT ![th[t].cur] = t]
    /\ th' = [th EXCEPT ![t] =
                IF strategies[th[t].cur].hwndDC = NoHandle
                   \/ strategies[th[t].cur].mfcDC = NoHandle
                THEN [@ EXCEPT !.pc = "si_clean", !.cont = "first"]
                ELSE [@ EXCEPT !.pc = "ensure"]]
    /\ UNCHANGED <<active_strategy_name, strategies, mss_instance, os, pilOk, pool, conv>>

\* the step at which a cached attempt failed; not recorded for the independent
\* path, whose attempts all end in the same finally block
Why(t, cause) == IF th[t].indep THEN None ELSE cause

\* CreateDIBSection through _create_bitmap_resources: a bitmap, a null handle,
\* a null pixel pointer (the handle is deleted again), or no such method
CreateOutcomes(s) ==
    IF HasBitmapMixin(s) THEN {"ok", "null handle", "null bits"} ELSE {"no method"}

CachedUse(f) == [hwndDC |-> f.hwndDC, mfcDC |-> f.mfcDC, saveBitMap |-> f.saveBitMap,
                 buffer |-> f.buffer]

\* a strategy that keeps whatever bitmap it has
NeedsCreate_WhenMissing(f, rect) == f.saveBitMap = NoHandle

\* ensure_bitmap_resources is entered when no bitmap is cached or its size differs
NeedsCreate(f, rect) ==
    f.saveBitMap = NoHandle \/ f.width # rect[1] \/ f.height # rect[2]

\* _try_capture_once lines 225-228 with ensure_bitmap_resources, lines 196-212
\* (_capture_with_retry lines 162-184): the size test; when a bitmap of another
\* size is cached it is deleted, its handle and dimensions stay in the fields
Ensure(t) ==
    /\ th[t].pc = "ensure"
    /\ LET s == th[t].cur
           f == strategies[s]
       IN IF ~NeedsCreate(f, th[t].rect)
          THEN /\ th' = [th EXCEPT ![t] = [@ EXCEPT !.pc = "select", !.use = CachedUse(f)]]
               /\ UNCHANGED <<strategies, os>>
          ELSE LET old == CleanupBmp(f)
                   g == IF old # {} /\ f.mfcDC # NoHandle
                        THEN [f EXCEPT !.selected_prev = None] ELSE f
               IN /\ strategies' = [strategies EXCEPT ![s] = g]
                  /\ os' = [os EXCEPT !.bmp = @ \ old, !.sel = RestoredBeforeDelete(@, f)]
                  /\ th' = [th EXCEPT ![t] = [@ EXCEPT !.pc = "create",
                                                       !.nrel = @ + Cardinality(old),
                                                       !.bad = @ \/ (old \ os.bmp # {})]]
    /\ UNCHANGED <<active_strategy_name, lock, mss_instance, pilOk, pool, conv>>

\* a creation that raises on a null pixel pointer and leaves the bitmap alive
DeletedBeforeRaise_Nothing(hBitmap) == {}

\* _create_bitmap_resources, lines 98-104: DeleteObject(hBitmap) before the
\* raise, when CreateDIBSection gave a handle and no pixel pointer
DeletedBeforeRaise(hBitmap) == {hBitmap}

\* BitmapResourceMixin._create_bitmap_resources, lines 67-109, with hBitmap the
\* handle CreateDIBSection would hand out: whether it raises, the handle and
\* buffer it returns, and the bitmaps it leaves alive.  Nothing is stored in
\* self.  A class without the mixin has no such method: AttributeError
create_bitmap_resources(outcome, hBitmap) ==
    CASE outcome = "ok" ->
            [raised |-> FALSE, saveBitMap |-> hBitmap, buffer |-> hBitmap,
             alive |-> {hBitmap}]
      [] outcome = "null bits" ->
            [raised |-> TRUE, saveBitMap |-> NoHandle, buffer |-> NoHandle,
             alive |-> {hBitmap} \ DeletedBeforeRaise(hBitmap)]
      [] OTHER ->
            [raised |-> TRUE, saveBitMap |-> NoHandle, buffer |-> NoHandle,
             alive |-> {}]

\* lines 213-216 (185-189): _create_bitmap_resources into locals; when it
\* raises, None is returned and the fields are left as they are
CreateBitmap(t) ==
    /\ th[t].pc = "create"
    /\ \E outcome \in CreateOutcomes(th[t].cur) :
         LET r == create_bitmap_resources(outcome,
                                          Fresh(UsedBmp, Site(th[t].cur, t, FALSE)))
         IN /\ os' = [os EXCEPT !.bmp = @ \cup r.alive]
            /\ th' = [th EXCEPT ![t] =
                  IF ~r.raised
                  THEN [@ EXCEPT !.pc = "store",
                           !.use = [NoUse EXCEPT !.saveBitMap = r.saveBitMap,
                                                 !.buffer = r.buffer]]
                  ELSE [@ EXCEPT !.pc = "try_ret", !.res = NoImage,
                                 !.why = outcome, !.nfail = @ + 1]]
    /\ UNCHANGED <<active_strategy_name, strategies, lock, mss_instance, pilOk, pool, conv>>

StoreBitmap(t) ==
    /\ th[t].pc = "store"
    /\ strategies' = [strategies EXCEPT ![th[t].cur] =
                        [@ EXCEPT !.saveBitMap = th[t].use.saveBitMap,
                                  !.buffer = th[t].use.buffer]]
    /\ th' = [th EXCEPT ![t] = [@ EXCEPT !.pc = "store_dims"]]
    /\ UNCHANGED <<active_strategy_name, lock, mss_instance, os, pilOk, pool, conv>>

\* lines 220-221 (193-194): width and height are stored; _try_capture_once
\* lines 229-243 then reads the cached handles for the capture
StoreDims(t) ==
    /\ th[t].pc = "store_dims"
    /\ LET h == [strategies[th[t].cur] EXCEPT !.width = th[t].rect[1],
                                              !.height = th[t].rect[2]]
       IN /\ strategies' = [strategies EXCEPT ![th[t].cur] = h]
          /\ th' = [th EXCEPT ![t] = [@ EXCEPT !.pc = "select", !.use = CachedUse(h)]]
    /\ UNCHANGED <<active_strategy_name, lock, mss_instance, os, pilOk, pool, conv>>

\* SelectObject(mfcDC, saveBitMap) selects a live bitmap into a live memory DC
\* and does nothing on a dead handle
Selected(sel, u) ==
    IF u.mfcDC \in os.memDC /\ u.saveBitMap \in os.bmp
    THEN Deselected(sel, u.mfcDC) \cup {<<u.mfcDC, u.saveBitMap>>} ELSE sel

\* a capture whose finally block is skipped when the capture fails
RestoresPrevious_OnSuccessOnly(outcome) == outcome \in {"image", "rescaled"}

\* lines 147-154 (288-300): the finally block runs on every way out
RestoresPrevious(outcome) == TRUE

\* _capture_bitmap_to_image lines 118-122 (_capture_window_to_bitmap lines
\* 250-263): the argument check and SelectObject; the PrintWindow variant
\* records prev_obj in the instance under the instance lock
Select(t) ==
    /\ th[t].pc = "select"
    /\ LET s == th[t].cur
           u == th[t].use
           back == IF th[t].indep THEN "ind_finally" ELSE "try_ret"
       IN IF u.hwndDC = NoHandle \/ u.mfcDC = NoHandle \/ u.saveBitMap = NoHandle
             \/ u.buffer = NoHandle
          THEN /\ th' = [th EXCEPT ![t] = [@ EXCEPT !.pc = back, !.res = NoImage,
                                                    !.why = Why(t, "args")]]
               /\ UNCHANGED <<strategies, os>>
          ELSE /\ th' = [th EXCEPT ![t] = [@ EXCEPT !.pc = "paint", !.prev = "stock"]]
               /\ os' = [os EXCEPT !.sel = Selected(@, u)]
               /\ IF RecordsSelectedPrev(s)
                  THEN /\ CanAcquire(s, t)
                       /\ strategies' = [strategies EXCEPT ![s].selected_prev = "stock"]
                  ELSE UNCHANGED strategies
    /\ UNCHANGED <<active_strategy_name, lock, mss_instance, pilOk, pool, conv>>

\* lines 123-154 (264-300): PrintWindow or BitBlt, GetDIBits, the conversion
\* and rescale; finally prev_obj is selected back.  GetDIBits on a bitmap that
\* has been deleted returns 0 rows.
Paint(t) ==
    /\ th[t].pc = "paint"
    /\ LET s == th[t].cur
           u == th[t].use
           back == IF th[t].indep THEN "ind_finally" ELSE "try_ret"
           stale == u.saveBitMap \notin os.bmp
       IN /\ \E outcome \in {"paint failed", "row mismatch", "image", "rescaled"} :
                LET img == IF stale \/ outcome \in {"paint failed", "row mismatch"}
                           THEN NoImage
                           ELSE Image(s, th[t].rect, Rescales(outcome = "rescaled"),
                                      u.saveBitMap)
                IN /\ th' = [th EXCEPT ![t] = [@ EXCEPT !.pc = back, !.res = img,
                                                        !.scale = (outcome = "rescaled"),
                                                        !.prev = None,
                                                        !.bad = @ \/ stale,
                                                        !.why = IF img = NoImage
                                                                THEN Why(t, "primitive")
                                                                ELSE None]]
                   /\ os' = [os EXCEPT !.sel = IF RestoresPrevious(outcome)
                                                THEN Deselected(@, u.mfcDC) ELSE @]
          /\ IF RecordsSelectedPrev(s)
             THEN /\ CanAcquire(s, t)
                  /\ strategies' = [strategies EXCEPT ![s].selected_prev = None]
             ELSE UNCHANGED strategies
    /\ UNCHANGED <<active_strategy_name, lock, mss_instance, pilOk, pool, conv>>

\* a capture that re-initialises and tries again as long as it fails
TryRet_RetriesAgain(t) ==
    /\ th[t].pc = "try_ret"
    /\ IF th[t].res = NoImage /\ Retries(th[t].cur)
       THEN /\ th' = [th EXCEPT ![t] = [@ EXCEPT !.pc = "si_clean", !.cont = "retry",
                                                 !.use = NoUse]]
            /\ UNCHANGED lock
       ELSE /\ th' = [th EXCEPT ![t] = [@ EXCEPT !.pc = "cap_ret", !.use = NoUse]]
            /\ lock' = [lock EXCEPT ![th[t].cur] = None]
    /\ UNCHANGED <<active_strategy_name, strategies, mss_instance, os, pilOk, pool, conv>>

\* capture_common lines 260-266 (PrintWindowScreencapper.capture lines 93-100):
\* return the image, or re-initialise and try once more, or return None
TryRet(t) ==
    /\ th[t].pc = "try_ret"
    /\ IF th[t].res = NoImage /\ Retries(th[t].cur) /\ ~th[t].retried
       THEN /\ th' = [th EXCEPT ![t] = [@ EXCEPT !.pc = "si_clean", !.cont = "retry",
                                                 !.use = NoUse]]
            /\ UNCHANGED lock
       ELSE /\ th' = [th EXCEPT ![t] = [@ EXCEPT !.pc = "cap_ret", !.use = NoUse]]
            /\ lock' = [lock EXCEPT ![th[t].cur] = None]
    /\ UNCHANGED <<active_strategy_name, strategies, mss_instance, os, pilOk, pool, conv>>

\* ------------------------- _capture_independent_generic, lines 269-279
\* (_capture_independent, lines 205-218): GetDC, CreateCompatibleDC and the
\* bitmap, all in locals
IndAcquire(t) ==
    /\ th[t].pc = "ind_acquire"
    /\ LET dc == Fresh(UsedWinDC, Site(th[t].cur, t, TRUE))
           mdc == Fresh(UsedMemDC, Site(th[t].cur, t, TRUE))
           nb == Fresh(UsedBmp, Site(th[t].cur, t, TRUE))
       IN \E outcome \in {"GetDC", "CreateCompatibleDC"} \cup CreateOutcomes(th[t].cur) :
            CASE outcome = "GetDC" ->
                    /\ os' = os
                    /\ th' = [th EXCEPT ![t] = [@ EXCEPT !.pc = "ind_finally",
                                                         !.res = NoImage]]
              [] outcome = "CreateCompatibleDC" ->
                    /\ os' = [os EXCEPT !.winDC = @ \cup {dc}]
                    /\ th' = [th EXCEPT ![t] = [@ EXCEPT !.pc = "ind_finally",
                                   !.res = NoImage,
                                   !.use = [NoUse EXCEPT !.hwndDC = dc]]]
              [] OTHER ->
                    LET r == create_bitmap_resources(outcome, nb)
                    IN /\ os' = [os EXCEPT !.winDC = @ \cup {dc}, !.memDC = @ \cup {mdc},
                                           !.bmp = @ \cup r.alive]
                       /\ th' = [th EXCEPT ![t] =
                             IF ~r.raised
                             THEN [@ EXCEPT !.pc = "select",
                                      !.use = [hwndDC |-> dc, mfcDC |-> mdc,
                                               saveBitMap |-> r.saveBitMap,
                                               buffer |-> r.buffer]]
                             ELSE [@ EXCEPT !.pc = "ind_finally", !.res = NoImage,
                                      !.use = [NoUse EXCEPT !.hwndDC = dc,
                                                            !.mfcDC = mdc]]]
    /\ UNCHANGED <<active_strategy_name, strategies, lock, mss_instance, pilOk, pool, conv>>

\* an independent capture that releases its handles on the success path only
IndFinally_OnSuccessOnly(t) ==
    /\ th[t].pc = "ind_finally"
    /\ LET u == IF th[t].res = NoImage THEN NoUse ELSE th[t].use
           n == Cardinality({k \in {"hwndDC", "mfcDC", "saveBitMap"} : u[k] # NoHandle})
       IN /\ os' = [os EXCEPT !.bmp = @ \ {u.saveBitMap}, !.memDC = @ \ {u.mfcDC},
                              !.winDC = @ \ {u.hwndDC}]
          /\ th' = [th EXCEPT ![t] = [@ EXCEPT !.pc = "cap_ret", !.use = NoUse,
                                               !.nrel = @ + n]]
    /\ UNCHANGED <<active_strategy_name, strategies, lock, mss_instance, pilOk, pool, conv>>

\* lines 298-307 (225-235): finally DeleteObject, DeleteDC, ReleaseDC on the locals
IndFinally(t) ==
    /\ th[t].pc = "ind_finally"
    /\ LET u == th[t].use
           n == Cardinality({k \in {"hwndDC", "mfcDC", "saveBitMap"} : u[k] # NoHandle})
       IN /\ os' = [os EXCEPT !.bmp = @ \ {u.saveBitMap}, !.memDC = @ \ {u.mfcDC},
                              !.winDC = @ \ {u.hwndDC}]
          /\ th' = [th EXCEPT ![t] = [@ EXCEPT !.pc = "cap_ret", !.use = NoUse,
                                               !.nrel = @ + n]]
    /\ UNCHANGED <<active_strategy_name, strategies, lock, mss_instance, pilOk, pool, conv>>

\* the call has returned to its caller
Finish(t) ==
    /\ th[t].pc = "done"
    /\ th' = [th EXCEPT ![t] = [Idle EXCEPT !.after = IF th[t].op = "cleanup"
                                                     THEN "cleanup" ELSE None,
                                             !.logging = th[t].logging,
                                             !.log = th[t].log]]
    /\ UNCHANGED <<active_strategy_name, strategies, lock, mss_instance, os, pilOk, pool, conv>>

\* the environment: pyautogui starts or stops working.  A call uses pyautogui
\* at most once, so a change during a call is a change before it or after it.
EnvPil ==
    /\ \A t \in Threads : th[t].pc = "idle"
    /\ pilOk' = ~pilOk
    /\ UNCHANGED <<active_strategy_name, strategies, lock, mss_instance, os, th, pool, conv>>

\* ------------------------------------------------------- MssScreencapper
\* The strategy is not registered in the controller; its three methods are
\* called on the instance directly.  No lock is involved, each method is one
\* step.

\* MssScreencapper.init: cleanup(), then mss(); [inst, sess, ok] afterwards
MssInitResults(inst, sess) ==
    LET rest == sess \ {inst}
        new == Fresh(rest, 0)
    IN {[inst |-> new, sess |-> rest \cup {new}, ok |-> TRUE],
        [inst |-> NoHandle, sess |-> rest, ok |-> FALSE]}

MssGrabs(rect, session) ==
    {NoImage} \cup {Image("mss", rect, sc, session) : sc \in BOOLEAN}

\* MssScreencapper.capture with independent=False: init() when there is no
\* session, grab, and on an exception init() and one more grab
MssCachedResults(inst, sess, rect) ==
    LET first == IF inst = NoHandle THEN MssInitResults(inst, sess)
                 ELSE {[inst |-> inst, sess |-> sess, ok |-> TRUE]}
        grab(r) == {[inst |-> r.inst, sess |-> r.sess, res |-> img] :
                        img \in MssGrabs(rect, r.inst) \ {NoImage}}
        none(r) == {[inst |-> r.inst, sess |-> r.sess, res |-> NoImage]}
        again(r) == UNION {IF r2.ok THEN grab(r2) \cup none(r2) ELSE none(r2) :
                             r2 \in MssInitResults(r.inst, r.sess)}
    IN UNION {IF r.ok THEN grab(r) \cup again(r) ELSE none(r) : r \in first}

\* independent=True: "with mss() as mss_instance" opens a session of its own
\* and closes it again
MssIndependentResults(inst, sess, rect) ==
    {[inst |-> inst, sess |-> sess, res |-> img] :
        img \in MssGrabs(rect, Fresh(sess \cup {inst}, 0))}

MssResults(inst, sess, rect, independent) ==
    IF independent THEN MssIndependentResults(inst, sess, rect)
    ELSE MssCachedResults(inst, sess, rect)

MssInit(t) ==
    /\ th[t].pc = "idle"
    /\ \E r \in MssInitResults(mss_instance, os.sess) :
         /\ mss_instance' = r.inst
         /\ os' = [os EXCEPT !.sess = r.sess]
         /\ th' = [th EXCEPT ![t] = [Idle EXCEPT !.op = "mss_init", !.pc = "done",
                                                 !.ok = r.ok]]
    /\ UNCHANGED <<active_strategy_name, strategies, lock, pilOk, pool, conv>>

MssCapture(t, independent) ==
    /\ th[t].pc = "idle"
    /\ \E rect \in {r \in Rects : r[1] > 0 /\ r[2] > 0} :
       \E r \in MssResults(mss_instance, os.sess, rect, independent) :
         /\ mss_instance' = r.inst
         /\ os' = [os EXCEPT !.sess = r.sess]
         /\ th' = [th EXCEPT ![t] = [Idle EXCEPT !.op = "mss_capture", !.pc = "done",
                                                 !.indep = independent, !.rect = rect,
                                                 !.ret = r.res]]
    /\ UNCHANGED <<active_strategy_name, strategies, lock, pilOk, pool, conv>>

\* MssScreencapper.cleanup: close the session, forget it
MssCleanup(t) ==
    /\ th[t].pc = "idle"
    /\ mss_instance' = NoHandle
    /\ os' = [os EXCEPT !.sess = @ \ {mss_instance}]
    /\ th' = [th EXCEPT ![t] = [Idle EXCEPT !.op = "mss_cleanup", !.pc = "done"]]
    /\ UNCHANGED <<active_strategy_name, strategies, lock, pilOk, pool, conv>>

\* ------------------------------------------------------- specifications
\* the steps inside a strategy's init() and cached capture(), whichever
\* thread makes the call, and the return of any call
StrategySteps ==
    \/ \E t \in Threads : SInitClean(t)
    \/ \E t \in Threads : SInitAcquire(t)
    \/ \E t \in Threads : SInitStore(t)
    \/ \E t \in Threads : SInitFail(t)
    \/ \E t \in Threads : Finish(t)
    \/ \E t \in Threads : CapLock(t)
    \/ \E t \in Threads : Ensure(t)
    \/ \E t \in Threads : CreateBitmap(t)
    \/ \E t \in Threads : StoreBitmap(t)
    \/ \E t \in Threads : StoreDims(t)
    \/ \E t \in Threads : Select(t)
    \/ \E t \in Threads : Paint(t)
    \/ \E t \in Threads : TryRet(t)

\* the steps inside the controller's init_screenshot and cleanup_resources
ControllerInitSteps ==
    \/ \E t \in Threads : CleanupStrategy(t)
    \/ \E t \in Threads : CleanupDone(t)
    \/ \E t \in Threads : InitNext(t)
    \/ \E t \in Threads : InitRet(t)

\* every step of the controller's calls, the independent path included
Steps ==
    \/ StrategySteps
    \/ ControllerInitSteps
    \/ \E t \in Threads : CapNext(t)
    \/ \E t \in Threads : CapRet(t)
    \/ \E t \in Threads : IndAcquire(t)
    \/ \E t \in Threads : IndFinally(t)

\* one caller: the automation loop makes every call, one after the other
Next ==
    \/ \E m \in Methods : StartInit("main", m)
    \/ StartCleanup("main")
    \/ \E i \in BOOLEAN : \E r \in Rects \cup {NoRect} : StartCapture("main", i, r)
    \/ MssInit("main")
    \/ \E i \in BOOLEAN : MssCapture("main", i)
    \/ MssCleanup("main")
    \/ EnvPil
    \/ Steps

Spec == Init /\ [][Next]_vars

\* two callers: "diag" makes independent captures of a well-formed window
\* while "main" initialises, captures from the cached resources and cleans up
IsoRects == {<<1, 1>>}

NextIso ==
    \/ \E m \in GDI : StartInit("main", m)
    \/ StartCleanup("main")
    \/ \E r \in IsoRects : StartCapture("main", FALSE, r)
    \/ \E r \in IsoRects : StartCapture("diag", TRUE, r)
    \/ Steps

SpecIso == Init /\ [][NextIso]_vars

\* ---------------------------------- calls made on a strategy instance itself
\* capture_common lines 246-254 (PrintWindowScreencapper.capture lines 73-86)
\* with independent=False
StrategyCapture(t, s, rect) ==
    /\ th[t].pc = "idle"
    /\ \E hwnd \in {0, 1} :
         th' = [th EXCEPT ![t] =
           LET fr == [Idle EXCEPT !.op = "s_capture", !.cur = s, !.rect = rect,
                                  !.hwnd = hwnd, !.logging = th[t].logging,
                                  !.log = th[t].log]
           IN IF RejectsInput(hwnd, rect)
              THEN [fr EXCEPT !.pc = "cap_ret"]
              ELSE [fr EXCEPT !.pc = "cap_lock"]]
    /\ UNCHANGED <<active_strategy_name, strategies, lock, mss_instance, os, pilOk, pool, conv>>

\* what a caller that counts DeleteObject calls notes down about one capture
LogEntry(fr) ==
    [rect |-> fr.rect, deleted |-> fr.nrel,
     shape |-> IF fr.res = NoImage THEN NoRect ELSE <<fr.res.w, fr.res.h>>]

\* capture() hands its result to the caller, who notes it down when observing
StrategyRet(t) ==
    /\ th[t].pc = "cap_ret" /\ th[t].op = "s_capture"
    /\ th' = [th EXCEPT ![t] = [@ EXCEPT !.pc = "done", !.ret = th[t].res,
                                         !.res = NoImage,
                                         !.log = IF th[t].logging /\ Len(@) < MaxCalls
                                                 THEN Append(@, LogEntry(th[t]))
                                                 ELSE @]]
    /\ UNCHANGED <<active_strategy_name, strategies, lock, mss_instance, os, pilOk, pool, conv>>

\* the caller starts to note down its captures of a freshly initialised
\* instance: device contexts present, no bitmap yet
Observe(t, s) ==
    /\ th[t].pc = "idle" /\ ~th[t].logging
    /\ strategies[s].hwndDC # NoHandle /\ strategies[s].mfcDC # NoHandle
    /\ strategies[s].saveBitMap = NoHandle
    /\ th' = [th EXCEPT ![t] = [@ EXCEPT !.logging = TRUE, !.log = <<>>]]
    /\ UNCHANGED <<active_strategy_name, strategies, lock, mss_instance, os, pilOk, pool, conv>>

\* init() called on the instance
StrategyInit(t, s) ==
    /\ th[t].pc = "idle"
    /\ th' = [th EXCEPT ![t] = [Idle EXCEPT !.op = "s_init", !.cur = s,
                                            !.pc = "si_clean", !.cont = "direct"]]
    /\ UNCHANGED <<active_strategy_name, strategies, lock, mss_instance, os, pilOk, pool, conv>>

\* cleanup() called on the instance: it waits for the lock
StartStrategyCleanup(t, s) ==
    /\ th[t].pc = "idle"
    /\ th' = [th EXCEPT ![t] = [Idle EXCEPT !.op = "s_cleanup", !.cur = s,
                                            !.pc = "s_clean"]]
    /\ UNCHANGED <<active_strategy_name, strategies, lock, mss_instance, os, pilOk, pool, conv>>

\* lines 309-341: the body of cleanup() inside "with self._lock"
StrategyCleanupBody(t) ==
    /\ th[t].pc = "s_clean"
    /\ CanAcquire(th[t].cur, t)
    /\ StrategyCleanup(th[t].cur)
    /\ th' = [th EXCEPT ![t] = [Cleaned(th[t], th[t].cur) EXCEPT !.pc = "done"]]
    /\ UNCHANGED <<active_strategy_name, lock, mss_instance, pilOk, pool, conv>>

\* several callers of one BitBlt instance: every thread initialises it,
\* captures from its cached resources and cleans up; the two threads ask for
\* different sizes, so that a capture after the other thread's resizes again
ConcRect(t) == IF t = "main" THEN <<1, 1>> ELSE <<2, 1>>

NextConc ==
    \/ \E t \in Callers : StrategyInit(t, "bitblt")
    \/ \E t \in Callers : StartStrategyCleanup(t, "bitblt")
    \/ \E t \in Callers : StrategyCapture(t, "bitblt", ConcRect(t))
    \/ \E t \in Threads : StrategyRet(t)
    \/ \E t \in Threads : StrategyCleanupBody(t)
    \/ StrategySteps

SpecConc == Init /\ [][NextConc]_vars

\* one caller of one BitBlt instance: init(), captures at either size and
\* cleanup(), one call after the other; the caller may note down the captures
\* that follow an init()
NextResize ==
    \/ StrategyInit("main", "bitblt")
    \/ StartStrategyCleanup("main", "bitblt")
    \/ Observe("main", "bitblt")
    \/ \E r \in {ConcRect(t) : t \in Callers} : StrategyCapture("main", "bitblt", r)
    \/ StrategyRet("main")
    \/ StrategyCleanupBody("main")
    \/ StrategySteps

SpecResize == Init /\ [][NextResize]_vars

\* ------------------------- PcScreenshotController: asynchronous initialisation
\* An executor is named after its one worker thread; None: the controller has
\* shut its executor down.  A worker whose executor has been shut down and
\* that has finished its task has ended, and its name is free again.
FreeWorkers == {w \in Workers : w # pool.executor /\ th[w].pc = "idle"
                                  /\ pool.queue[w] = <<>>}

\* async_init_screenshot, lines 81-91: a new executor when there is none, then
\* submit(_init_screenshot_with_wait, method)
AsyncInit(method) ==
    /\ \E w \in IF pool.executor # None THEN {pool.executor} ELSE FreeWorkers :
         /\ Len(pool.queue[w]) < MaxQueue
         /\ pool' = [executor |-> w,
                     queue |-> [pool.queue EXCEPT ![w] = Append(@, method)]]
    /\ UNCHANGED <<active_strategy_name, strategies, lock, mss_instance, os, pilOk, th, conv>>

\* cleanup_init_executor, lines 136-144: shutdown(wait=False,
\* cancel_futures=True) drops what is queued and lets a running task run on
Teardown ==
    /\ pool' = IF pool.executor = None THEN pool
               ELSE [executor |-> None,
                     queue |-> [pool.queue EXCEPT ![pool.executor] = <<>>]]
    /\ UNCHANGED <<active_strategy_name, strategies, lock, mss_instance, os, pilOk, th, conv>>

\* the worker of an executor takes the next task of its queue
WorkerTake(w) ==
    /\ th[w].pc = "idle" /\ pool.queue[w] # <<>>
    /\ th' = [th EXCEPT ![w] = [Idle EXCEPT !.op = "async_init", !.pc = "wait",
                                            !.method = Head(pool.queue[w])]]
    /\ pool' = [pool EXCEPT !.queue[w] = Tail(@)]
    /\ UNCHANGED <<active_strategy_name, strategies, lock, mss_instance, os, pilOk, conv>>

\* _init_screenshot_with_wait, line 99: the loop is left when the probe
\* game_win.is_win_valid returns true
Proceeds_Always(valid) == TRUE

\* a loop that goes on sleeping whatever the probe returns
Proceeds_Never(valid) == FALSE

Proceeds(valid) == valid

\* _init_screenshot_with_wait, lines 93-103: one round of the loop.  The probe
\* returns either value; on true init_screenshot(method) is entered, on false
\* the task sleeps and probes again
WorkerPoll(w) ==
    /\ th[w].pc = "wait"
    /\ \E valid \in BOOLEAN :
         th' = [th EXCEPT ![w] =
                  IF Proceeds(valid)
                  THEN [InitFrame(th[w].method) EXCEPT !.valid = valid]
                  ELSE [@ EXCEPT !.polls = IF @ < MaxPolls THEN @ + 1 ELSE @]]
    /\ UNCHANGED <<active_strategy_name, strategies, lock, mss_instance, os, pilOk, pool, conv>>

\* one caller and the workers: asynchronous initialisations, executor shutdowns,
\* and init_screenshot and cleanup_resources called directly.  How many
\* initialisations run at a time does not depend on the preferred method;
\* with "pil", whose init() always succeeds, an initialisation is short.
NextAsync ==
    \/ AsyncInit("pil")
    \/ Teardown
    \/ \E w \in Workers : WorkerTake(w)
    \/ \E w \in Workers : WorkerPoll(w)
    \/ StartInit("main", "pil")
    \/ StartCleanup("main")
    \/ ControllerInitSteps
    \/ \E t \in Threads : Finish(t)

SpecAsync == Init /\ [][NextAsync]_vars

\* init() of one thread against the cached capture of another on the same GDI
\* instance: "diag" is the background initializer at strategy.init() (line 116
\* of init_screenshot), "main" captures from the cached resources and
\* initialises lazily inside capture_common
NextInitCapture ==
    \/ \E s \in GDI : StrategyInit("diag", s)
    \/ \E s \in GDI : StrategyCapture("main", s, <<1, 1>>)
    \/ \E t \in Threads : StrategyRet(t)
    \/ StrategySteps

SpecInitCapture == Init /\ [][NextInitCapture]_vars

\* two callers at the controller: "main" initialises with a GDI method and
\* captures from the cached resources of a well-formed window, "diag" calls
\* cleanup_resources.  init_screenshot and cleanup_resources never overlap
\* here: the only overlap is that of a capture with a cleanup
RaceInit(m) == th["diag"].pc \in {"idle", "done"} /\ StartInit("main", m)

RaceCleanup == th["main"].op # "init" /\ StartCleanup("diag")

NextRace ==
    \/ \E m \in GDI : RaceInit(m)
    \/ \E r \in IsoRects : StartCapture("main", FALSE, r)
    \/ RaceCleanup
    \/ StrategySteps
    \/ ControllerInitSteps
    \/ \E t \in Threads : CapNext(t)
    \/ \E t \in Threads : CapRet(t)
    \/ \E t \in Threads : Finish(t)

SpecRace == Init /\ [][NextRace]_vars

\* ------------------------------------ BitmapResourceMixin.buffer_to_ndarray
\* a buffer is modelled by its number of bytes (arr.size); a buffer of a
\* bitmap of at most MaxDim x MaxDim pixels, or any shorter or longer one
BufferSizes == 0..(4 * MaxDim * MaxDim)

\* a conversion that reshapes without comparing the sizes
buffer_to_ndarray_Unchecked(size, width, height) ==
    [err |-> FALSE, shape |-> <<height, width, 4>>]

\* buffer_to_ndarray, lines 127-138: ValueError when arr.size differs from
\* width * height * 4, else the buffer seen as an array (height, width, 4)
buffer_to_ndarray(size, width, height) ==
    IF size # width * height * 4
    THEN [err |-> TRUE, shape |-> <<>>]
    ELSE [err |-> FALSE, shape |-> <<height, width, 4>>]

\* the number of bytes an array of this shape spans
Bytes(shape) == IF shape = <<>> THEN 0 ELSE shape[1] * shape[2] * shape[3]

\* the call buffer_to_ndarray(buffer, width, height) of line 142
ToImage ==
    /\ conv.pc = "call"
    /\ LET r == buffer_to_ndarray(conv.size, conv.width, conv.height)
       IN conv' = [conv EXCEPT !.pc = "converted", !.err = r.err, !.shape = r.shape]
    /\ UNCHANGED <<active_strategy_name, strategies, lock, mss_instance, os, pilOk, th, pool>>

\* _capture_bitmap_to_image, lines 143-148: cvtColor(BGRA2RGB), the optional
\* resize, return; except Exception: return None.  <<>> stands for None
CaptureTail ==
    /\ conv.pc = "converted"
    /\ \E is_win_scale \in BOOLEAN :
         conv' = [conv EXCEPT !.pc = "returned", !.scale = is_win_scale,
                    !.ret = IF conv.err THEN <<>>
                            ELSE IF Rescales(is_win_scale)
                                 THEN <<standard_height, standard_width, 3>>
                                 ELSE <<conv.shape[1], conv.shape[2], 3>>]
    /\ UNCHANGED <<active_strategy_name, strategies, lock, mss_instance, os, pilOk, th, pool>>

\* a conversion of any buffer for any width and height, inside a capture
InitBuf ==
    /\ InitController
    /\ conv \in {[NoConv EXCEPT !.pc = "call", !.size = n, !.width = w, !.height = h] :
                   n \in BufferSizes, w \in 0..MaxDim, h \in 0..MaxDim}

NextBuf ==
    \/ ToImage
    \/ CaptureTail

SpecBuf == InitBuf /\ [][NextBuf]_vars

\* =================================================================== claims
InCall(t, op) == th[t].op = op /\ th[t].pc # "idle"
Returned(t, op) == th[t].op = op /\ th[t].pc = "done"

\* the entries of a trace that are calls of init()
InitCalls(tr) == SelectSeq(tr, LAMBDA e : e.call = "init")

\* C1: init(preferred) first calls cleanup() on every strategy, then init() on
\* the candidates of preferred's fallback order, one by one and in order; it
\* stops at the first candidate whose init() succeeds, returns its name and
\* makes exactly it the active strategy; a failing candidate only moves the
\* call on to the next one.
C1_InitFirstSuccess ==
    \A t \in Threads : InCall(t, "init") =>
        LET tr == th[t].trace
            n == Len(tr)
            k == Len(StrategyOrder)
            order == get_method_priority_list(th[t].method)
        IN /\ \A i \in 1..n :
                IF i <= k
                THEN tr[i] = Call("cleanup", StrategyOrder[i], FALSE, TRUE)
                ELSE /\ i - k <= Len(order)
                     /\ tr[i].call = "init"
                     /\ tr[i].s = order[i - k]
           /\ \A i \in 1..(n - 1) : tr[i].call = "init" => ~tr[i].ok
           /\ (n > k /\ tr[n].ok) => th[t].pc \in {"init_ret", "done"}
           /\ th[t].pc = "done" =>
                /\ n > k
                /\ IF tr[n].ok
                   THEN th[t].retName = tr[n].s /\ active_strategy_name = tr[n].s
                   ELSE /\ n = k + Len(order)
                        /\ th[t].retName = None /\ active_strategy_name = None

\* C1 witness: init("bitblt") returned "print_window" after bitblt's init() failed
C1_Witness ==
    /\ Returned("main", "init")
    /\ th["main"].method = "bitblt"
    /\ th["main"].retName = "print_window"
    /\ Len(th["main"].trace) = 5

\* "B's capture() always succeeds" can be read off a state only for the pil
\* strategy, whose one primitive succeeds exactly while pilOk holds.
AlwaysCaptures(B, rect) == B = "pil" /\ pilOk /\ rect[1] > 0 /\ rect[2] > 0

Position(seq, x) == CHOOSE i \in 1..Len(seq) : seq[i] = x

\* C2 as first stated: with A active, A's capture() returning null and any later
\* strategy B of A's order that always succeeds, one non-independent capture
\* returns B's image and makes B active.
C2_Original ==
    \A t \in Threads :
        (Returned(t, "capture") /\ ~th[t].indep /\ th[t].act0 # None
            /\ Len(th[t].trace) >= 1 /\ ~th[t].trace[1].ok) =>
        \A B \in Strategies :
            (/\ AlwaysCaptures(B, th[t].rect)
             /\ Position(th[t].order, B) > 1) =>
            (th[t].ret.by = B /\ active_strategy_name = B)

\* C2 (amended): with A active, if in one non-independent capture every candidate
\* before B in A's order returns null and B's capture() returns an image, the
\* call returns B's image and B is the active strategy afterwards; and every
\* non-independent capture calls the capture() of the strategy that is active
\* when it starts before any other, so the next call tries B first.
C2_SelfHealing ==
    \A t \in Threads : (InCall(t, "capture") /\ ~th[t].indep) =>
        LET tr == th[t].trace
            n == Len(tr)
        IN /\ n >= 1 => (th[t].act0 # None /\ tr[1].s = th[t].act0)
           /\ (th[t].pc = "done" /\ n >= 1 /\ tr[n].ok) =>
                /\ \A i \in 1..(n - 1) : ~tr[i].ok
                /\ th[t].ret.by = tr[n].s
                /\ th[t].ret # NoImage
                /\ active_strategy_name = tr[n].s

\* C2 witness: print_window was active and returned null, bitblt produced the
\* image and is active now
C2_Witness ==
    /\ Returned("main", "capture") /\ ~th["main"].indep
    /\ th["main"].act0 = "print_window"
    /\ th["main"].ret.by = "bitblt"
    /\ active_strategy_name = "bitblt"

StateUnchanged ==
    UNCHANGED <<active_strategy_name, strategies, lock, mss_instance, os>>

\* C3: a capture with independent=false on an uninitialised controller returns
\* null at once: no strategy's capture() or init() is called and no controller
\* or strategy state changes.
C3_UninitializedRejected ==
    [][\A t \in Threads :
          (/\ th[t].pc = "idle"
           /\ th'[t].op = "capture" /\ ~th'[t].indep
           /\ active_strategy_name = None) =>
          (/\ th'[t].pc = "done"
           /\ th'[t].ret = NoImage
           /\ th'[t].trace = <<>>
           /\ StateUnchanged)]_vars

\* C3 witness: such a call has returned
C3_Witness ==
    /\ Returned("main", "capture") /\ ~th["main"].indep
    /\ th["main"].act0 = None
    /\ th["main"].ret = NoImage

\* C4: within one controller capture the candidates are tried strictly in the
\* order of the candidate list, each at most once; nothing is tried after the
\* first candidate that returns an image, which is what the call returns; when
\* every candidate returns null the call returns null.
C4_CandidatesInOrderOnce ==
    \A t \in Threads : InCall(t, "capture") =>
        LET tr == th[t].trace
            n == Len(tr)
            order == th[t].order
        IN /\ n <= Len(order)
           /\ \A i \in 1..n : tr[i].call = "capture" /\ tr[i].s = order[i]
           /\ \A i, j \in 1..n : tr[i].s = tr[j].s => i = j
           /\ \A i \in 1..(n - 1) : ~tr[i].ok
           /\ (n >= 1 /\ tr[n].ok) => th[t].pc = "done"
           /\ th[t].pc = "done" =>
                IF n >= 1 /\ tr[n].ok
                THEN th[t].ret # NoImage /\ th[t].ret.by = tr[n].s
                ELSE th[t].ret = NoImage /\ n = Len(order)

\* C4 witness: the first two candidates returned null, the third an image
C4_Witness ==
    /\ Returned("main", "capture")
    /\ Len(th["main"].trace) = 3
    /\ th["main"].ret.by = th["main"].order[3]

\* C5: from any state cleanup() calls cleanup() on every strategy and leaves the
\* controller uninitialised with no strategy holding a native handle and no
\* handle of a strategy alive; a second cleanup() right after it ends in the
\* same state and passes no handle to a release primitive.
C5_CleanupIdempotent ==
    Returned("main", "cleanup") =>
        /\ CleanedUp
        /\ \A s \in GDI : ~HoldsAnything(strategies[s])
        /\ os.winDC = {} /\ os.memDC = {} /\ os.bmp = {}
        /\ \A s \in GDI : lock[s] = None
        /\ Len(th["main"].trace) = Len(StrategyOrder)
        /\ \A i \in 1..Len(StrategyOrder) :
              th["main"].trace[i] = Call("cleanup", StrategyOrder[i], FALSE, TRUE)
        /\ th["main"].after = "cleanup" => th["main"].nrel = 0

\* C5 witness: a cleanup() that followed a cleanup() has returned, with native
\* objects of other owners still alive
C5_Witness ==
    /\ Returned("main", "cleanup")
    /\ th["main"].after = "cleanup"
    /\ os.sess # {}

\* C5 witness of the first call: it had handles to release
C5_WitnessReleased ==
    /\ Returned("main", "cleanup")
    /\ th["main"].nrel = 5

\* PilScreencapper.init is "return True"
InitCannotFail(Q) == Q = "pil"

\* C7 as first stated: for every preferred P and every Q later in P's order, if
\* P's init() fails and Q's init() always succeeds, init(P) returns Q and Q is
\* the active strategy.
C7_Original ==
    \A t \in Threads : Returned(t, "init") =>
        LET inits == InitCalls(th[t].trace)
            order == get_method_priority_list(th[t].method)
        IN \A Q \in Strategies :
              (/\ inits[1].s = th[t].method /\ ~inits[1].ok
               /\ Position(order, Q) > 1
               /\ InitCannotFail(Q)) =>
              (th[t].retName = Q /\ active_strategy_name = Q)

\* C7 (amended): for every preferred P and the first strategy Q later in P's
\* order whose init() succeeds (P's init() and that of every candidate between
\* them fail), init(P) returns Q and Q is the active strategy.
C7_FallbackMonotonic ==
    \A t \in Threads : Returned(t, "init") =>
        LET inits == InitCalls(th[t].trace)
            order == get_method_priority_list(th[t].method)
        IN \A q \in 2..Len(order) :
              (/\ Len(inits) >= q
               /\ inits[1].s = th[t].method
               /\ \A i \in 1..(q - 1) : inits[i].s = order[i] /\ ~inits[i].ok
               /\ inits[q].s = order[q] /\ inits[q].ok) =>
              (th[t].retName = order[q] /\ active_strategy_name = order[q])

\* C7 witness: init("print_window") fell back to bitblt
C7_Witness ==
    /\ Returned("main", "init")
    /\ th["main"].method = "print_window"
    /\ ~InitCalls(th["main"].trace)[1].ok
    /\ th["main"].retName = "bitblt"
    /\ active_strategy_name = "bitblt"

CachedPcs == {"cap_lock", "ensure", "create", "store", "store_dims", "try_ret",
              "si_clean", "si_acquire", "si_store", "si_fail"}

\* C8: a controller capture with independent=true uses the default candidate
\* order whatever the active strategy is, also when there is none; every
\* strategy it tries takes the independent path; and no step of the call
\* changes the active strategy, whichever strategy wins.
C8_IndependentFrame ==
    [][\A t \in Threads :
          (th'[t] # th[t] /\ th'[t].op = "capture" /\ th'[t].indep) =>
          (/\ active_strategy_name' = active_strategy_name
           /\ th'[t].order \in {<<>>, get_method_priority_list("auto")}
           /\ (th'[t].order = <<>>) => (th'[t].pc = "done" /\ th'[t].rect = NoRect)
           /\ th'[t].pc \notin CachedPcs
           /\ \A i \in 1..Len(th'[t].trace) :
                 th'[t].trace[i].indep /\ th'[t].trace[i].s = StrategyOrder[i])]_vars

\* C8 witness: an independent capture returned the image of a strategy that is
\* not the active one
C8_Witness ==
    /\ Returned("main", "capture") /\ th["main"].indep
    /\ active_strategy_name = "pil"
    /\ th["main"].ret.by = "bitblt"

\* C8 witness on an uninitialised controller
C8_WitnessUninitialized ==
    /\ Returned("main", "capture") /\ th["main"].indep
    /\ active_strategy_name = None
    /\ th["main"].ret # NoImage

CachedHandles(kind) ==
    CASE kind = "winDC" -> {strategies[s].hwndDC : s \in GDI} \ {NoHandle}
      [] kind = "memDC" -> {strategies[s].mfcDC : s \in GDI} \ {NoHandle}
      [] kind = "bmp" -> {strategies[s].saveBitMap : s \in GDI} \ {NoHandle}

C9_WitnessMss ==
    /\ Returned("main", "mss_capture") /\ th["main"].indep
    /\ th["main"].ret # NoImage
    /\ mss_instance # NoHandle

\* every step a thread can take inside a call
ThreadStep(t) ==
    \/ CleanupStrategy(t) \/ CleanupDone(t) \/ InitNext(t) \/ InitRet(t)
    \/ SInitClean(t) \/ SInitAcquire(t) \/ SInitStore(t) \/ SInitFail(t)
    \/ CapNext(t) \/ CapRet(t) \/ CapLock(t) \/ Ensure(t) \/ CreateBitmap(t)
    \/ StoreBitmap(t) \/ StoreDims(t) \/ Select(t) \/ Paint(t)
    \/ TryRet(t) \/ IndAcquire(t) \/ IndFinally(t) \/ Finish(t)
    \/ StrategyRet(t) \/ StrategyCleanupBody(t)

UseHandles(t, kind) ==
    CASE kind = "winDC" -> {th[t].use.hwndDC} \ {NoHandle}
      [] kind = "memDC" -> {th[t].use.mfcDC} \ {NoHandle}
      [] kind = "bmp" -> {th[t].use.saveBitMap} \ {NoHandle}

Kinds == {"winDC", "memDC", "bmp"}

IndependentHandles(t) == (Site("bitblt", t, TRUE) + 1)..(Site("bitblt", t, TRUE) + 9)

\* the steps of an independent strategy capture between its first acquisition
\* and the end of its finally block
IndependentPcs == {"select", "paint", "ind_finally"}

\* C11: every window DC, memory DC and bitmap an independent capture acquires is
\* released before the strategy's capture() returns, whatever the outcome: a
\* handle acquired by an independent capture is alive only while that capture
\* is between its acquisition and the end of its finally block and refers to
\* it in its locals; once capture() has returned the call holds nothing and
\* has released as many handles as it acquired.
C11_IndependentReleasesAll ==
    \A t \in Threads :
        /\ os.winDC \cap IndependentHandles(t) \subseteq {th[t].use.hwndDC}
        /\ os.memDC \cap IndependentHandles(t) \subseteq {th[t].use.mfcDC}
        /\ os.bmp \cap IndependentHandles(t) \subseteq {th[t].use.saveBitMap}
        /\ (th[t].op = "capture" /\ th[t].indep /\ th[t].pc \notin IndependentPcs) =>
              /\ th[t].use = NoUse
              /\ (os.winDC \cup os.memDC \cup os.bmp) \cap IndependentHandles(t) = {}
        /\ (th[t].op = "capture" /\ th[t].indep /\ th[t].pc = "ind_finally") =>
              /\ th[t].use.hwndDC # NoHandle => th[t].use.hwndDC \in os.winDC
              /\ th[t].use.mfcDC # NoHandle => th[t].use.mfcDC \in os.memDC
              /\ th[t].use.saveBitMap # NoHandle => th[t].use.saveBitMap \in os.bmp

\* C11 witness: an independent print_window capture acquired two device
\* contexts, failed to get its bitmap and has returned null with both released
C11_Witness ==
    /\ th["main"].op = "capture" /\ th["main"].indep
    /\ th["main"].pc = "cap_ret" /\ th["main"].cur = "print_window"
    /\ th["main"].res = NoImage
    /\ th["main"].nrel >= 2

\* C11 witness of the successful outcome: three handles acquired and released
C11_WitnessImage ==
    /\ th["main"].op = "capture" /\ th["main"].indep
    /\ th["main"].pc = "cap_ret" /\ th["main"].cur = "bitblt"
    /\ th["main"].res # NoImage
    /\ th["main"].nrel = 3

\* the cached handles of strategy s
CachedTriple(s) == [hwndDC |-> strategies[s].hwndDC, mfcDC |-> strategies[s].mfcDC,
                    saveBitMap |-> strategies[s].saveBitMap,
                    buffer |-> strategies[s].buffer]

\* a cached attempt of thread t has just failed at the paint/copy primitive or
\* at the read-back row count
PrimitiveFailed(t) ==
    /\ th[t].op = "capture" /\ ~th[t].indep
    /\ th[t].pc = "try_ret" /\ th[t].res = NoImage /\ th[t].why = "primitive"

C12_WitnessLater ==
    /\ th["main"].op = "capture" /\ ~th["main"].indep
    /\ th["main"].cur = "bitblt" /\ th["main"].pc = "try_ret"
    /\ th["main"].res # NoImage
    /\ th["main"].cont = None /\ th["main"].nrel = 0
    /\ th["main"].res.src = strategies["bitblt"].saveBitMap

\* the next step of thread t's strategy capture() creates a native resource:
\* the device contexts in init(), or the bitmap
AboutToCreate(t) ==
    /\ th[t].op = "capture"
    /\ \/ th[t].pc = "si_acquire"
       \/ th[t].pc = "create"

C13_WitnessPrintWindow ==
    /\ th["main"].op = "capture" /\ th["main"].cur = "print_window"
    /\ th["main"].pc = "cap_ret" /\ th["main"].nfail = 2

\* the native resources of an instance: all absent, or all present
OwnsNone(f) == f.hwndDC = NoHandle /\ f.mfcDC = NoHandle /\ f.saveBitMap = NoHandle
                  /\ f.buffer = NoHandle
OwnsAll(f) == f.hwndDC # NoHandle /\ f.mfcDC # NoHandle /\ f.saveBitMap # NoHandle
                 /\ f.buffer # NoHandle

\* a thread is between two calls, so a public call may start in this state
CallMayStart == \E t \in Threads : th[t].pc = "idle"

\* C14: at the start of every public call a GDI strategy instance is seen with
\* none of its native resources (window DC, memory DC, bitmap with its pixel
\* buffer) or with all of them, never with a partial set.
C14_AllOrNothing ==
    CallMayStart => \A s \in GDI : OwnsNone(strategies[s]) \/ OwnsAll(strategies[s])

\* a cached capture is at SelectObject, or at the paint and GetDIBits that follow
UsingCachedBitmap(t) ==
    /\ th[t].op = "capture" /\ ~th[t].indep
    /\ th[t].pc \in {"select", "paint"}
    /\ th[t].use.saveBitMap # NoHandle

\* C15: a cached bitmap handed to the select, paint and read-back primitives is
\* a live bitmap of the requested dimensions, also after a resize whose
\* creation failed, and the bitmap an instance would delete next (on a resize
\* or on cleanup) has not been deleted before.
C15_CachedBitmapLive ==
    /\ \A t \in Threads :
          UsingCachedBitmap(t) =>
             /\ th[t].use.saveBitMap \in os.bmp
             /\ strategies[th[t].cur].width = th[t].rect[1]
             /\ strategies[th[t].cur].height = th[t].rect[2]
    /\ \A s \in GDI : CleanupBmp(strategies[s]) \subseteq os.bmp
    /\ \A t \in Threads : ~th[t].bad

\* the section of a cached capture between the size test and the read-back
BitmapSectionPcs == {"ensure", "create", "store", "store_dims", "select", "paint"}

InBitmapSection(t, s) ==
    /\ th[t].op \in {"capture", "s_capture"} /\ ~th[t].indep
    /\ th[t].cur = s
    /\ th[t].pc \in BitmapSectionPcs

\* the old bitmap is gone and the new handle, buffer and dimensions are not
\* all stored yet
MidResize(t, s) ==
    InBitmapSection(t, s) /\ th[t].pc \in {"create", "store", "store_dims"}

\* the steps of any call that read or write the bitmap fields of an instance
TouchesBitmapPcs == BitmapSectionPcs \cup {"si_clean", "si_fail", "s_clean"}

\* C16: two cached captures on one strategy instance are never both inside
\* the check-size / replace-bitmap / use-bitmap section, and no step of
\* another thread reads or writes the instance's bitmap fields while a resize
\* is half done.
C16_CachedCapturesExclusive ==
    [][\A s \in GDI : \A t1 \in Threads : \A t2 \in Threads \ {t1} :
          /\ ~(InBitmapSection(t1, s) /\ InBitmapSection(t2, s))
          /\ (MidResize(t1, s) /\ th[t2].cur = s /\ th[t2].pc \in TouchesBitmapPcs)
                => th'[t2] = th[t2]]_vars

\* one thread is half way through replacing the bitmap the other thread's
\* capture left behind while that thread waits to enter its next capture
C16_Witness ==
    /\ MidResize("main", "bitblt") /\ th["main"].pc = "store_dims"
    /\ strategies["bitblt"].width = ConcRect("diag")[1]
    /\ strategies["bitblt"].saveBitMap = th["main"].use.saveBitMap
    /\ th["diag"].op = "s_capture" /\ th["diag"].pc = "cap_lock"
    /\ th["diag"].cur = "bitblt"

\* two callers of one BitBlt instance: both capture from the cached resources,
\* one also calls init(), the other cleanup()
LiveRect == <<1, 1>>

NextLive ==
    \/ \E t \in Callers : StrategyCapture(t, "bitblt", LiveRect)
    \/ StrategyInit("diag", "bitblt")
    \/ StartStrategyCleanup("main", "bitblt")
    \/ \E t \in Threads : StrategyRet(t)
    \/ \E t \in Threads : StrategyCleanupBody(t)
    \/ StrategySteps

\* A thread that can run does run, and a thread waiting for the lock gets it
\* at one of the times it is free when it is free again and again.  Nothing
\* obliges a thread to start another call.
SpecLive == Init /\ [][NextLive]_vars /\ \A t \in Callers : SF_vars(ThreadStep(t))

\* thread t is inside a call on a strategy instance
InStrategyCall(t) == th[t].op \in {"s_init", "s_capture", "s_cleanup"} /\ th[t].pc # "done"

RequestedShape(rect) == {rect}
DeliveredShapes(rect) == {rect, <<standard_width, standard_height>>}
Shapes(rect, strict) == IF strict THEN RequestedShape(rect) ELSE DeliveredShapes(rect)

\* one step of a cached capture() on a strategy, seen from outside
ResizeStep(t, strict) ==
    LET s == th[t].cur
        f == strategies[s]
        differs == f.saveBitMap = NoHandle \/ f.width # th[t].rect[1]
                      \/ f.height # th[t].rect[2]
    IN (th[t].op = "s_capture" /\ th'[t] # th[t]) =>
        /\ th[t].pc = "ensure" =>
              IF differs
              THEN /\ th'[t].pc = "create"
                   /\ os'.bmp = os.bmp \ {f.saveBitMap}
                   /\ th'[t].nrel = th[t].nrel + (IF f.saveBitMap # NoHandle THEN 1 ELSE 0)
              ELSE /\ th'[t].pc = "select"
                   /\ os' = os /\ strategies' = strategies
                   /\ th'[t].nrel = th[t].nrel
        /\ (th[t].pc = "create" /\ th'[t].pc = "store") =>
              /\ Cardinality(os'.bmp) = Cardinality(os.bmp) + 1
              /\ os.bmp \subseteq os'.bmp
        /\ th[t].pc = "store_dims" =>
              /\ strategies'[s].width = th[t].rect[1]
              /\ strategies'[s].height = th[t].rect[2]
              /\ strategies'[s].saveBitMap \in os.bmp
        /\ th[t].pc \in {"store", "store_dims", "select", "paint", "try_ret", "cap_ret"} =>
              os'.bmp = os.bmp /\ th'[t].nrel = th[t].nrel
        /\ (th[t].pc = "paint" /\ th'[t].res # NoImage) =>
              <<th'[t].res.w, th'[t].res.h>> \in Shapes(th[t].rect, strict)

\* three noted captures at sizes A, B, A that all returned an image
ThreeCalls(t) ==
    /\ th[t].logging /\ Len(th[t].log) >= 3
    /\ \A i \in 1..3 : th[t].log[i].shape # NoRect
    /\ th[t].log[1].rect = th[t].log[3].rect
    /\ th[t].log[1].rect # th[t].log[2].rect

ResizeLog(t, strict) ==
    ThreeCalls(t) =>
        /\ th[t].log[1].deleted + th[t].log[2].deleted + th[t].log[3].deleted = 2
        /\ \A i \in 1..3 : th[t].log[i].shape \in Shapes(th[t].log[i].rect, strict)

\* C18 as first stated: consecutive cached captures replace the bitmap exactly
\* when the requested dimensions differ from the cached ones, a capture at the
\* cached size creates and deletes nothing, every result has the requested
\* shape, and captures at A, B, A after an init() make exactly 2 replacements.
C18_Original ==
    /\ [](\A t \in Threads : ResizeLog(t, TRUE))
    /\ [][\A t \in Threads : ResizeStep(t, TRUE)]_vars

\* C18: the same, with every result having the requested shape or, when the
\* window is scaled, the standard shape.
C18_ResizeReplaces ==
    /\ [](\A t \in Threads : ResizeLog(t, FALSE))
    /\ [][\A t \in Threads : ResizeStep(t, FALSE)]_vars

\* three captures at A, B, A have returned images of the requested shape
C18_Witness ==
    /\ ThreeCalls("main")
    /\ \A i \in 1..3 : th["main"].log[i].shape = th["main"].log[i].rect
    /\ th["main"].log[2].deleted = 1 /\ th["main"].log[3].deleted = 1

\* the bitmaps that are selected into some memory DC
SelectedBitmaps == {p[2] : p \in os.sel}

\* C19: a bitmap is selected into a memory DC only between the SelectObject of
\* a capture and that capture's way out: whichever way the capture leaves
\* (image, paint or copy failure, row-count mismatch) the previously selected
\* object is back in the DC; and a bitmap that is deleted, by a resize, a
\* cleanup or an independent capture, is not selected into a DC at that time.
C19_SelectionRestored ==
    /\ [](\A p \in os.sel : \E t \in Threads :
              /\ th[t].pc = "paint"
              /\ th[t].use.mfcDC = p[1] /\ th[t].use.saveBitMap = p[2])
    /\ [][/\ \A t \in Threads :
                (th[t].pc = "paint" /\ th'[t].pc # "paint") =>
                    /\ <<th[t].use.mfcDC, th[t].use.saveBitMap>> \in os.sel
                          \/ th[t].use.saveBitMap \notin os.bmp
                    /\ \A p \in os'.sel : p[1] # th[t].use.mfcDC
          /\ \A b \in os.bmp \ os'.bmp : b \notin SelectedBitmaps]_vars

\* a cached capture has left through a failed paint or read-back, its bitmap
\* alive and no longer selected
C19_Witness ==
    /\ th["main"].op = "capture" /\ ~th["main"].indep
    /\ th["main"].pc = "try_ret" /\ th["main"].why = "primitive"
    /\ th["main"].use.saveBitMap \in os.bmp
    /\ os.sel = {}

\* a resize has just deleted the bitmap an earlier capture had selected and
\* released
C19_WitnessResize ==
    /\ th["main"].op = "capture" /\ th["main"].pc = "create"
    /\ th["main"].nrel = 1 /\ ~th["main"].bad
    /\ os.sel = {}

\* an execution of _init_screenshot_with_wait is in flight on worker w
InitInFlight(w) == th[w].pc \notin {"idle", "done"}

\* C20: whatever asynchronous initialisations, initialisations, cleanups and
\* executor shutdowns have been called on the controller, at most one
\* execution of the asynchronous initialisation (the polling wait followed by
\* init_screenshot) is in flight at any time.
C20_OneInitInFlight ==
    Cardinality({w \in Workers : InitInFlight(w)}) <= 1

\* ------------------------------------------------------------------ C21
Polling(w) == th[w].op = "async_init" /\ th[w].pc = "wait"

\* a worker only runs init_screenshot on behalf of a submitted task
WorkerInInit(w) == th[w].op = "init" /\ th[w].pc # "idle"

\* C21: a background initialisation enters init_screenshot only after the
\* validity probe has returned true; until then each round of the loop leaves
\* the strategies, the active strategy and the native resources as they were
\* and the task stays in the loop.
C21_InitAfterValidProbe ==
    /\ [](\A w \in Workers : WorkerInInit(w) => th[w].valid)
    /\ [][\A w \in Workers :
            (Polling(w) /\ th'[w] # th[w]) =>
               \/ WorkerInInit(w)' /\ th'[w].valid /\ th'[w].pc = "clean"
               \/ /\ Polling(w)'
                  /\ th'[w].polls >= th[w].polls
                  /\ UNCHANGED <<active_strategy_name, strategies, os>>]_vars

\* an initialisation that was probed invalid at least once and then entered
\* init_screenshot while another task is still being probed invalid
C21_Witness ==
    \E w, v \in Workers :
        /\ WorkerInInit(w) /\ th[w].valid /\ th[w].pc = "init_next"
        /\ Polling(v) /\ th[v].polls >= 1

\* ------------------------------------------------------------------ C22
\* the executor that ran worker w has been shut down by cleanup_init_executor
\* while a task of it is still running
TornDown(w) == InitInFlight(w) /\ pool.executor # w

\* C22: once the init executor has been shut down, a background initialisation
\* that is still running on its worker does nothing more that can be observed:
\* it does not enter or continue init_screenshot and does not set the active
\* strategy; a task that was queued and not started is never started.
C22_NoEffectAfterTeardown ==
    [][\A w \in Workers :
         /\ (TornDown(w) /\ th'[w] # th[w]) =>
               /\ th'[w].op # "init"
               /\ active_strategy_name' = active_strategy_name
         /\ (pool.executor # w /\ th[w].pc = "idle") => th'[w].pc = "idle"]_vars

C23_WitnessPrimitive ==
    /\ th["main"].op = "capture" /\ th["main"].pc = "cap_ret"
    /\ th["main"].cur \in GDI /\ th["main"].why = "primitive"
    /\ th["main"].res = NoImage

\* ------------------------------------------------------------------ C24
\* init_screenshot, line 112: the candidate order of init_screenshot(method)
InitOrder(method) == get_method_priority_list(method)

\* C24: a capture from the cached resources made while the active strategy is
\* P tries the candidates in the order init_screenshot(P) uses, for every P;
\* an independent capture tries them in the order init_screenshot uses for
\* the automatic (or any unknown) name.
C24_SameOrder ==
    \A t \in Threads :
        /\ (th[t].op = "capture" /\ th[t].order # <<>>) =>
              th[t].order = IF th[t].indep THEN InitOrder("auto")
                            ELSE InitOrder(th[t].act0)
        /\ (th[t].op = "init" /\ th[t].order # <<>>) =>
              th[t].order = InitOrder(th[t].method)

\* a capture that started while "pil" was active and tries "pil" first
C24_Witness ==
    /\ th["main"].op = "capture" /\ ~th["main"].indep
    /\ th["main"].act0 = "pil"
    /\ th["main"].order = <<"pil", "bitblt", "print_window">>
    /\ th["main"].pc = "cap_ret"

\* an independent capture made while "print_window" is active
C24_WitnessIndependent ==
    /\ th["main"].op = "capture" /\ th["main"].indep
    /\ th["main"].act0 = "print_window"
    /\ th["main"].order = <<"bitblt", "print_window", "pil">>
    /\ th["main"].pc = "cap_ret"

\* ------------------------------------------------------------------ C25
\* _get_method_priority_list, line 165: the list of a name that is no key
DefaultOrder == <<"bitblt", "print_window", "pil">>

\* the orders in which the registered strategies can be listed once each
Orderings ==
    {o \in [1..Cardinality(Strategies) -> Strategies] :
        \A i, j \in DOMAIN o : o[i] = o[j] => i = j}

Without(o, name) == SelectSeq(o, LAMBDA x : x # name)

\* the name a frame looked its candidate list up with
LookedUp(fr) ==
    IF fr.op = "init" THEN fr.method
    ELSE IF fr.indep THEN "auto" ELSE fr.act0

\* what the claim requires of the list found under a name, given the one
\* relative order o of the registered strategies
WellFormedEntry(name, list, o) ==
    /\ \A i \in DOMAIN list : list[i] \in Strategies
    /\ IF name \in Strategies
       THEN /\ Len(list) = Cardinality(Strategies)
            /\ Head(list) = name
            /\ Tail(list) = Without(o, name)
       ELSE list = DefaultOrder

\* C25: there is one order of the registered strategies such that the entry
\* of every registered name is that name followed by all the others in this
\* order, each once; every listed name is registered; any other name, the
\* automatic one included, gets the default order.  This holds of the table
\* and of every list a running init_screenshot or get_screenshot iterates.
C25_FallbackTable ==
    \E o \in Orderings :
        /\ \A name \in Methods \cup {None} :
              WellFormedEntry(name, get_method_priority_list(name), o)
        /\ \A t \in Threads :
              (th[t].op \in {"init", "capture"} /\ th[t].order # <<>>) =>
                 WellFormedEntry(LookedUp(th[t]), th[t].order, o)

\* init_screenshot("pil") is going through the entry of "pil"
C25_Witness ==
    /\ th["main"].op = "init" /\ th["main"].method = "pil"
    /\ th["main"].pc = "init_ret" /\ th["main"].idx = 1
    /\ th["main"].order = <<"pil", "bitblt", "print_window">>

\* ------------------------------------------------------------------ C26
HoldsNothing(f) ==
    /\ f.hwndDC = NoHandle /\ f.mfcDC = NoHandle
    /\ f.saveBitMap = NoHandle /\ f.buffer = NoHandle

\* init() has returned to its caller with this result
InitResult(fr, ok) ==
    IF fr.pc \in {"init_ret", "done"} THEN fr.ok = ok
    ELSE IF ok THEN fr.pc = "ensure"
    ELSE fr.pc = "cap_ret" /\ fr.res = NoImage /\ fr.why = "init"

\* the device contexts alive in the system that no instance and no running
\* call holds any more
OrphanDCs ==
    (os.winDC \ ({strategies[s].hwndDC : s \in GDI}
                   \cup {th[t].use.hwndDC : t \in Threads}))
    \cup (os.memDC \ ({strategies[s].mfcDC : s \in GDI}
                        \cup {th[t].use.mfcDC : t \in Threads}))

\* C26: init() of a GDI strategy first releases what the instance holds; it
\* returns false when the window handle is missing or GetDC or
\* CreateCompatibleDC returns null, and then the instance holds nothing and
\* no device context of the attempt is left alive; when it returns true the
\* two device contexts it acquired are stored in the instance and alive.
C26_InitContract ==
    /\ [](OrphanDCs = {})
    /\ [][\A t \in Threads :
            LET s == th[t].cur
                f == strategies[s]
            IN /\ (th[t].pc = "si_clean" /\ th'[t] # th[t]) =>
                     /\ th'[t].pc = "si_acquire"
                     /\ HoldsNothing(strategies'[s])
                     /\ f.hwndDC \notin os'.winDC /\ f.mfcDC \notin os'.memDC
                     /\ f.saveBitMap \notin os'.bmp
               /\ (th[t].pc = "si_acquire" /\ th'[t] # th[t]) =>
                     IF th'[t].pc = "si_store"
                     THEN /\ th'[t].hwnd # 0
                          /\ th'[t].use.hwndDC \in os'.winDC \ os.winDC
                          /\ th'[t].use.mfcDC \in os'.memDC \ os.memDC
                     ELSE /\ th'[t].pc = "si_fail"
                          /\ os'.winDC = os.winDC /\ os'.memDC = os.memDC
                          /\ strategies' = strategies
               /\ (th[t].pc = "si_fail" /\ th'[t] # th[t]) =>
                     /\ InitResult(th'[t], FALSE)
                     /\ HoldsNothing(strategies'[s])
                     /\ os'.winDC \subseteq os.winDC /\ os'.memDC \subseteq os.memDC
               /\ (th[t].pc = "si_store" /\ th'[t] # th[t]) =>
                     /\ InitResult(th'[t], TRUE)
                     /\ strategies'[s].hwndDC = th[t].use.hwndDC
                     /\ strategies'[s].mfcDC = th[t].use.mfcDC
                     /\ strategies'[s].hwndDC \in os'.winDC
                     /\ strategies'[s].mfcDC \in os'.memDC]_vars

\* the init() inside a retried capture has released the two device contexts
\* the instance held, found the window, failed to acquire new ones and
\* returned false
C26_Witness ==
    /\ th["main"].op = "capture" /\ th["main"].pc = "cap_ret"
    /\ th["main"].why = "init" /\ th["main"].cont = "retry"
    /\ th["main"].hwnd # 0 /\ th["main"].nrel >= 2
    /\ HoldsNothing(strategies[th["main"].cur])

\* init_screenshot has just got true from a strategy's init()
C26_WitnessSuccess ==
    /\ th["main"].op = "init" /\ th["main"].pc = "init_ret" /\ th["main"].ok
    /\ th["main"].cur \in GDI
    /\ strategies[th["main"].cur].hwndDC \in os.winDC
    /\ strategies[th["main"].cur].mfcDC \in os.memDC

\* ------------------------------------------------------------------ C27
\* capture_common after line 254: the positions of a GDI capture() behind its
\* two input checks
BeyondChecks(fr) ==
    /\ fr.op = "capture" /\ fr.cur \in GDI
    /\ fr.pc \in {"cap_lock", "si_clean", "si_acquire", "si_store", "si_fail",
                  "ensure", "create", "store", "store_dims", "select", "paint",
                  "try_ret", "ind_acquire", "ind_finally"}

\* C27: capture() of a GDI strategy called without a window handle, or with a
\* rectangle whose width or height is not positive, returns null at once: it
\* takes no lock, calls neither init() nor any system call, does not retry
\* and leaves the instance's fields and the native objects as they are, for
\* captures from the cached resources and for independent ones alike.
C27_BadInputReturnsNull ==
    /\ [](\A t \in Threads :
            BeyondChecks(th[t]) => th[t].rect[1] > 0 /\ th[t].rect[2] > 0)
    /\ [][\A t \in Threads :
            (th[t].op = "capture" /\ th[t].pc = "cap_next" /\ th'[t] # th[t]
               /\ th'[t].pc # "done" /\ th'[t].cur \in GDI) =>
                 IF th'[t].hwnd = 0 \/ th[t].rect[1] <= 0 \/ th[t].rect[2] <= 0
                 THEN /\ th'[t].pc = "cap_ret" /\ th'[t].res = NoImage
                      /\ ~th'[t].retried /\ th'[t].nrel = th[t].nrel
                      /\ UNCHANGED <<strategies, os, lock, active_strategy_name>>
                 ELSE BeyondChecks(th'[t])]_vars

\* a capture from the cached resources of an initialised instance was given a
\* rectangle without height and has returned null; the instance is untouched
C27_Witness ==
    /\ th["main"].op = "capture" /\ th["main"].pc = "cap_ret"
    /\ ~th["main"].indep /\ th["main"].cur = "bitblt"
    /\ th["main"].rect = <<1, 0>> /\ th["main"].hwnd # 0
    /\ th["main"].res = NoImage
    /\ strategies["bitblt"].saveBitMap \in os.bmp

\* an independent capture without a window handle has returned null
C27_WitnessIndependent ==
    /\ th["main"].op = "capture" /\ th["main"].pc = "cap_ret"
    /\ th["main"].indep /\ th["main"].cur \in GDI
    /\ th["main"].rect = <<1, 1>> /\ th["main"].hwnd = 0
    /\ th["main"].res = NoImage

\* ------------------------------------------------------------------ C28
\* C28: the creation of a bitmap with its pixel buffer fails with an error
\* when CreateDIBSection returns no handle or no pixel pointer; a handle that
\* came without a pixel pointer is deleted before the error is raised, so a
\* failed creation returns no handle and leaves no new bitmap alive; a
\* successful one returns a new live bitmap and stores nothing in the
\* instance.
C28_CreateContract ==
    [][\A t \in Threads :
         /\ (th[t].pc = "create" /\ th'[t] # th[t]) =>
               /\ strategies' = strategies
               /\ IF th'[t].pc = "store"
                  THEN /\ th'[t].use.saveBitMap \in os'.bmp \ os.bmp
                       /\ th'[t].use.buffer # NoHandle
                  ELSE /\ th'[t].pc = "try_ret" /\ th'[t].res = NoImage
                       /\ th'[t].why \in {"null handle", "null bits", "no method"}
                       /\ th'[t].use.saveBitMap = NoHandle
                       /\ os'.bmp = os.bmp
         /\ (th[t].pc = "ind_acquire" /\ th'[t] # th[t]) =>
               /\ strategies' = strategies
               /\ IF th'[t].pc = "select"
                  THEN /\ th'[t].use.saveBitMap \in os'.bmp \ os.bmp
                       /\ th'[t].use.buffer # NoHandle
                  ELSE /\ th'[t].pc = "ind_finally" /\ th'[t].res = NoImage
                       /\ th'[t].use.saveBitMap = NoHandle
                       /\ os'.bmp = os.bmp]_vars

\* CreateDIBSection gave a handle without a pixel pointer while the BitBlt
\* instance was replacing its bitmap: the creation has raised and every live
\* bitmap belongs to an instance
C28_Witness ==
    /\ th["main"].pc = "try_ret" /\ th["main"].cur = "bitblt"
    /\ th["main"].why = "null bits"
    /\ th["main"].use.saveBitMap = NoHandle
    /\ os.bmp \subseteq {strategies[s].saveBitMap : s \in GDI}

\* a creation has succeeded and its result is not yet stored by the caller
C28_WitnessCreated ==
    /\ th["main"].pc = "store" /\ th["main"].cur = "bitblt"
    /\ th["main"].use.saveBitMap \in os.bmp
    /\ strategies["bitblt"].saveBitMap # th["main"].use.saveBitMap

\* ------------------------------------------------------------------ C29
\* C29: the conversion of a buffer into an array fails with an error exactly
\* when the buffer's length differs from width * height * 4, and otherwise
\* gives an array of shape (height, width, 4), which spans the buffer and not
\* a byte more; a capture in which the conversion fails returns null.
C29_ConversionChecked ==
    conv.pc \in {"converted", "returned"} =>
        /\ conv.err <=> conv.size # conv.width * conv.height * 4
        /\ ~conv.err => conv.shape = <<conv.height, conv.width, 4>>
        /\ Bytes(conv.shape) <= conv.size
        /\ (conv.pc = "returned" /\ conv.err) => conv.ret = <<>>

\* a capture has returned null because the buffer was shorter than the
\* bitmap it was to hold
C29_Witness ==
    /\ conv.pc = "returned" /\ conv.err /\ conv.ret = <<>>
    /\ conv.width > 0 /\ conv.height > 0
    /\ conv.size < conv.width * conv.height * 4

\* a buffer of the right length has been converted
C29_WitnessConverted ==
    /\ conv.pc = "converted" /\ ~conv.err
    /\ conv.shape = <<MaxDim, 1, 4>> /\ conv.size = 4 * MaxDim

\* ------------------------------------------------------------------ C30
\* the shape (rows, columns, channels) of an image
Shape(img) == <<img.h, img.w, img.ch>>

\* the shape a capture of rect must have, given the rescale flag it read
ExpectedShape(rect, is_win_scale) ==
    IF is_win_scale THEN <<standard_height, standard_width, 3>>
    ELSE <<rect[2], rect[1], 3>>

\* C30: a capture of a rectangle of positive width and height gives null or
\* an image of shape (height, width, 3) when the window's rescale flag is not
\* set and (standard height, standard width, 3) when it is, whichever
\* strategy made it and in either mode; get_screenshot hands on what the
\* strategy returned.
C30_ImageShape ==
    \A t \in Threads :
        (th[t].op = "capture" /\ th[t].rect[1] > 0 /\ th[t].rect[2] > 0) =>
            /\ (th[t].pc = "cap_ret" /\ th[t].res # NoImage) =>
                  Shape(th[t].res) = ExpectedShape(th[t].rect, th[t].scale)
            /\ (th[t].pc = "done" /\ th[t].ret # NoImage) =>
                  Shape(th[t].ret) = ExpectedShape(th[t].rect, th[t].scale)

\* a capture from the cached bitmap of an initialised BitBlt instance has
\* returned a rescaled image of a window of another size
C30_Witness ==
    /\ th["main"].op = "capture" /\ th["main"].pc = "done" /\ ~th["main"].indep
    /\ th["main"].rect = <<1, 1>> /\ th["main"].scale
    /\ th["main"].ret.by = "bitblt"
    /\ Shape(th["main"].ret) = <<standard_height, standard_width, 3>>

\* the screenshot strategy of last resort has returned an image as large as
\* the window
C30_WitnessPil ==
    /\ th["main"].op = "capture" /\ th["main"].pc = "cap_ret"
    /\ th["main"].rect = <<MaxDim, 1>> /\ ~th["main"].scale
    /\ th["main"].res.by = "pil"
    /\ Shape(th["main"].res) = <<1, MaxDim, 3>>

\* ------------------------------------------------------------------ C31
\* C31: when cleanup_resources ran to its end while a capture from the cached
\* resources was in flight on another thread, then once that capture has
\* returned too (nobody having called init_screenshot in between) no strategy
\* is active and no GDI strategy holds a device context or a bitmap.
C31_CleanupWins ==
    \A u \in Threads :
        (Returned(u, "capture") /\ th[u].overlap) =>
            /\ active_strategy_name = None
            /\ \A s \in GDI : HoldsNothing(strategies[s])

\* ------------------------------------------------------------------ C32
\* C32: when init() of the background initializer and a cached capture run
\* concurrently on the same GDI strategy, every device context that has been
\* acquired and not released is referenced by the instance's fields (or by the
\* call that is still acquiring it), and the window DC, memory DC and owning
\* window handle an instance stores belong together.
C32_NoLeakedDC ==
    /\ OrphanDCs = {}
    /\ \A s \in GDI :
          /\ (strategies[s].hwndDC = NoHandle) = (strategies[s].mfcDC = NoHandle)
          /\ (strategies[s].hwndDC = NoHandle) = (strategies[s].hwnd_for_dc = 0)

\* ------------------------------------------------------------------ C33
\* every strategy.capture() the get_screenshot of thread t has made returned
\* None or raised
AllCandidatesFailed(t) == \A i \in 1..Len(th[t].trace) : ~th[t].trace[i].ok

\* C33: a get_screenshot all of whose candidates returned None or raised
\* returns None and leaves active_strategy_name as it found it; during a
\* get_screenshot the active strategy changes only in a call that is not
\* independent, when a strategy other than the active one has returned an
\* image, and it becomes that strategy.
C33_ActiveChangesOnlyByWinner ==
    /\ [](\A t \in Threads :
            Returned(t, "capture") /\ AllCandidatesFailed(t) =>
                th[t].ret = NoImage /\ active_strategy_name = th[t].act0)
    /\ [][\A t \in Threads :
            (th[t].op = "capture" /\ th[t].pc # "done"
             /\ active_strategy_name' # active_strategy_name) =>
                /\ th[t].pc = "cap_ret" /\ ~th[t].indep
                /\ th[t].res \notin {NoImage, Raised}
                /\ th[t].cur # active_strategy_name
                /\ active_strategy_name' = th[t].cur]_vars

\* a capture from the cached resources has tried all three candidates in vain
C33_Witness ==
    \E t \in Threads :
        /\ Returned(t, "capture") /\ ~th[t].indep /\ AllCandidatesFailed(t)
        /\ Len(th[t].trace) = Len(StrategyOrder)
        /\ th[t].ret = NoImage /\ active_strategy_name = th[t].act0

\* a capture has returned the image of its second or third candidate, which
\* is now the active strategy
C33_WitnessPromoted ==
    \E t \in Threads :
        /\ Returned(t, "capture") /\ ~th[t].indep /\ th[t].ret # NoImage
        /\ Len(th[t].trace) > 1
        /\ active_strategy_name # th[t].act0
        /\ active_strategy_name = th[t].trace[Len(th[t].trace)].s

\* ------------------------------------------------------------------ C34
\* C34: "pil" is in the fallback order of every method and its init() returns
\* True, so init_screenshot(method) returns the name of a strategy and leaves
\* that strategy active, whatever the method and whatever the init() of the
\* GDI strategies return; the branch "all methods failed" is never entered.
C34_InitAlwaysActivates ==
    \A t \in Threads :
        /\ \A m \in Methods :
              \E i \in 1..Len(get_method_priority_list(m)) :
                  get_method_priority_list(m)[i] = "pil"
        /\ ~(th[t].op = "init" /\ th[t].pc = "init_next"
                                /\ th[t].idx > Len(th[t].order))
        /\ Returned(t, "init") =>
              /\ th[t].retName \in Strategies
              /\ active_strategy_name = th[t].retName

\* init_screenshot of a GDI method has returned "pil" after the init() of
\* both GDI strategies failed
C34_Witness ==
    \E t \in Threads :
        /\ Returned(t, "init") /\ th[t].method \in GDI
        /\ \A s \in GDI : \E i \in 1..Len(th[t].trace) :
              th[t].trace[i] = Call("init", s, FALSE, FALSE)
        /\ th[t].retName = "pil" /\ active_strategy_name = "pil"

\* ------------------------------------------------------------------ C35
\* C35: between the operations of the controller (init_screenshot followed by
\* any number of captures from the cached resources, fall back and promotion
\* included) every GDI strategy other than the active one holds no device
\* context and no bitmap.
C35_OnlyActiveHolds ==
    (\A t \in Threads : th[t].pc \in {"idle", "done"}) =>
        \A s \in GDI :
            s # active_strategy_name => HoldsNothing(strategies[s])

\* ------------------------------------------------------------------ C36
\* a round of the loop of _init_screenshot_with_wait in which the probe
\* returned true: init_screenshot(method) is entered
PollProceeds(w) == WorkerPoll(w) /\ th'[w].op = "init"

\* the steps of a worker thread of the executor
WorkerStep(w) == WorkerTake(w) \/ PollProceeds(w) \/ ThreadStep(w)

\* asynchronous initialisations of a controller that is not torn down: tasks
\* are submitted with any method, the one worker of the executor takes them
\* one after the other
NextAsyncLive ==
    \/ \E m \in Methods : AsyncInit(m)
    \/ \E w \in Workers : WorkerTake(w)
    \/ \E w \in Workers : WorkerPoll(w)
    \/ ControllerInitSteps
    \/ \E t \in Threads : SInitClean(t)
    \/ \E t \in Threads : SInitAcquire(t)
    \/ \E t \in Threads : SInitStore(t)
    \/ \E t \in Threads : SInitFail(t)
    \/ \E t \in Threads : Finish(t)

\* The worker thread of the executor runs whenever it can, and the probe
\* game_win.is_win_valid is true from some time on: a task that keeps polling
\* gets a round in which the probe returns true.  Nothing obliges anybody to
\* submit a task.
SpecAsyncLive ==
    Init /\ [][NextAsyncLive]_vars /\ \A w \in Workers : WF_vars(WorkerStep(w))

\* C36: when the probe game_win.is_win_valid is true from some time on and
\* the controller is not torn down, every submitted background initialisation
\* is taken from the queue (the queue of a worker is empty again and again, or
\* the worker takes its head again and again), runs init_screenshot(method) to
\* its end and leaves a strategy active; as long as the probe returns false
\* the running task stays in its loop and no task queued behind it is started.
C36_AsyncInitCompletes ==
    /\ \A w \in Workers :
          []<>(pool.queue[w] = <<>>) \/ []<><<WorkerTake(w)>>_vars
    /\ \A w \in Workers :
          InitInFlight(w) ~>
            (Returned(w, "init") /\ active_strategy_name \in Strategies)
    /\ [][\A w \in Workers :
            (Polling(w) /\ ~PollProceeds(w)) =>
                /\ Polling(w)'
                /\ Len(pool'.queue[w]) >= Len(pool.queue[w])]_vars

\* a background initialisation has left its loop on a true probe and run
\* init_screenshot to its end, with another task waiting behind it
C36_Witness ==
    \E w \in Workers :
        /\ Returned(w, "init") /\ th[w].valid
        /\ active_strategy_name \in Strategies
        /\ pool.queue[w] # <<>>
====
